---------------------------- MODULE Spec2Model ----------------------------
(***************************************************************************)
(* Model of the CSV data-quality tool: the DataCleaning component          *)
(* (analyzeDataAndCreateSteps, the step handlers, applyAllSelectedSteps)   *)
(* and the QualityAnalysis component (analyzeData and its scores).         *)
(*                                                                         *)
(* Representation of JavaScript values                                     *)
(*   - a string is a sequence of one-character strings;                    *)
(*   - a cell is a record [t, n, s, inf]: t is the result of typeof,       *)
(*     n is the numeric value in hundredths (1 is n = 100), s the string,  *)
(*     inf is 1 / -1 for Infinity / -Infinity and 0 otherwise;             *)
(*   - row and column indices are 0-based as in the code, sequences are    *)
(*     1-based, so row index i is rows[i + 1];                             *)
(*   - a number that can be NaN (the scores) is a record [nan, v].         *)
(***************************************************************************)
EXTENDS Integers, Sequences, FiniteSets, TLC

VARIABLES
    data,           \* the CSVData given to the components (App.csvData)
    cleaningSteps,  \* DataCleaning state: the CleaningStep list
    previewData,    \* DataCleaning state: the dataset shown in the global preview
    isProcessing,   \* DataCleaning state
    runSteps,       \* the cleaningSteps captured by the last call of applyAllSelectedSteps
    cleanedData,    \* App.cleanedData, delivered by onDataCleaned (NoData before)
    cleanedOrigin,  \* history: for each row of cleanedData the index of the row of data it comes from
    edits,          \* history: number of user edits of the steps so far
    isAnalyzing,    \* QualityAnalysis state
    report,         \* QualityAnalysis state: the QualityReport (NoReport before)
    detailedIssues, \* QualityAnalysis state: the issue list
    scores,         \* the seven dimension scores given to the weighted sum (<<>> if none)
    aiInsights,     \* AIInsights state: insights, structuredInsights, isGenerating, error,
                    \* apiKey, showApiKeyInput (NoInsights while not mounted)
    network,        \* the fetch calls of AIInsights: sent, awaiting their response; localStorage
    activeTab,      \* App state: the id of the tab shown
    pendingCalls    \* the calls of analyzeData and applyAllSelectedSteps that wait at their
                    \* await, with the props and state of the render that made them

vars == <<data, cleaningSteps, previewData, isProcessing, runSteps, cleanedData,
          cleanedOrigin, edits, isAnalyzing, report, detailedIssues, scores, aiInsights, network,
          activeTab, pendingCalls>>

-----------------------------------------------------------------------------
(* Bounds *)

MaxRows == 3
MaxDupRows == 5
MaxWideRows == 2
MaxCleaningRows == 2
MaxPendingCalls == 1
OutlierRows == 6
MaxEdits == 3
MaxScoreRows == 201
MaxFetches == 2
MinNumbers == 3
MaxNumbers == 5
MaxBlanks == 5

-----------------------------------------------------------------------------
(* JavaScript values *)

Str(s) == [t |-> "string", n |-> 0, s |-> s, inf |-> 0]
Num(h) == [t |-> "number", n |-> h, s |-> <<>>, inf |-> 0]
Int100(i) == Num(i * 100)
PosInfinity == [t |-> "number", n |-> 0, s |-> <<>>, inf |-> 1]
NegInfinity == [t |-> "number", n |-> 0, s |-> <<>>, inf |-> -1]
Undefined == [t |-> "undefined", n |-> 0, s |-> <<>>, inf |-> 0]
Null == [t |-> "object", n |-> 0, s |-> <<>>, inf |-> 0]

EmptyString == Str(<<>>)

NaN == [nan |-> TRUE, v |-> 0]
Fin(v) == [nan |-> FALSE, v |-> v]

\* row[colIndex]: reading past the end of an array gives undefined
At(row, colIndex) ==
    IF colIndex >= 0 /\ colIndex + 1 <= Len(row) THEN row[colIndex + 1] ELSE Undefined

\* headers.indexOf(header): index of the first occurrence, -1 when absent
IndexOf(headers, header) ==
    IF \E i \in 1..Len(headers) : headers[i] = header
    THEN (CHOOSE i \in 1..Len(headers) :
              headers[i] = header /\ \A j \in 1..(i - 1) : headers[j] # header) - 1
    ELSE -1

\* data.rows.map(row => row[colIndex])
Column(rows, colIndex) == [i \in 1..Len(rows) |-> At(rows[i], colIndex)]

\* array.filter(test): the elements satisfying Test, in order
Filter(seq, Test(_)) == SelectSeq(seq, Test)

\* the 0-based indices i of seq whose element satisfies Test, ascending
IndicesWhere(seq, Test(_)) ==
    LET idx == [i \in 1..Len(seq) |-> i]
        hit == SelectSeq(idx, LAMBDA i : Test(seq[i]))
    IN  [k \in 1..Len(hit) |-> hit[k] - 1]

Range(seq) == {seq[i] : i \in 1..Len(seq)}

RECURSIVE SumSeq(_)
SumSeq(seq) == IF seq = <<>> THEN 0 ELSE Head(seq) + SumSeq(Tail(seq))

\* Math.round(num / den) for den > 0: halves round towards +Infinity
RoundDiv(num, den) == (2 * num + den) \div (2 * den)

-----------------------------------------------------------------------------
(* Strings *)

UpperChars == <<"A","B","C","D","E","F","G","H","I","J","K","L","M",
                "N","O","P","Q","R","S","T","U","V","W","X","Y","Z">>
LowerChars == <<"a","b","c","d","e","f","g","h","i","j","k","l","m",
                "n","o","p","q","r","s","t","u","v","w","x","y","z">>

WhiteSpace == {" ", "\t"}

LowerChar(c) ==
    IF \E i \in 1..26 : UpperChars[i] = c
    THEN LowerChars[CHOOSE i \in 1..26 : UpperChars[i] = c]
    ELSE c

UpperChar(c) ==
    IF \E i \in 1..26 : LowerChars[i] = c
    THEN UpperChars[CHOOSE i \in 1..26 : LowerChars[i] = c]
    ELSE c

\* s.toLowerCase(), s.toUpperCase()
ToLowerCase(s) == [i \in 1..Len(s) |-> LowerChar(s[i])]
ToUpperCase(s) == [i \in 1..Len(s) |-> UpperChar(s[i])]

\* s.trim()
Trim(s) ==
    LET solid == {i \in 1..Len(s) : s[i] \notin WhiteSpace}
    IN  IF solid = {} THEN <<>>
        ELSE LET lo == CHOOSE i \in solid : \A j \in solid : i <= j
                 hi == CHOOSE i \in solid : \A j \in solid : i >= j
             IN  SubSeq(s, lo, hi)

\* s.includes(sub)
Includes(s, sub) ==
    \E i \in 1..(Len(s) - Len(sub) + 1) : SubSeq(s, i, i + Len(sub) - 1) = sub

\* s.replace(/\s+/g, ' '): every run of white space becomes one space
CollapseSpaces(s) ==
    LET keep == SelectSeq([i \in 1..Len(s) |-> i],
                          LAMBDA i : s[i] \notin WhiteSpace
                                     \/ i = 1 \/ s[i - 1] \notin WhiteSpace)
    IN  [k \in 1..Len(keep) |-> IF s[keep[k]] \in WhiteSpace THEN " " ELSE s[keep[k]]]

-----------------------------------------------------------------------------
(* Rows and their keys *)

\* JSON.stringify of one array element: a finite number prints as its digits,
\* a string is quoted, and Infinity, -Infinity, null and undefined all print
\* as the text null
StringifyCell(c) ==
    IF c.t = "string" THEN [quoted |-> TRUE, n |-> 0, s |-> c.s]
    ELSE IF c.t = "number" /\ c.inf = 0 THEN [quoted |-> FALSE, n |-> c.n, s |-> <<>>]
    ELSE [quoted |-> FALSE, n |-> 0, s |-> <<"n","u","l","l">>]

\* JSON.stringify(row)
JSONstringify(row) == [i \in 1..Len(row) |-> StringifyCell(row[i])]

\* the rows.forEach / rows.filter loop over a Map of seen keys: the 0-based
\* indices of the rows whose key an earlier row already has
DuplicateRowIndices(rows) ==
    LET keys == [i \in 1..Len(rows) |-> JSONstringify(rows[i])]
        dup  == SelectSeq([i \in 1..Len(rows) |-> i],
                          LAMBDA i : \E j \in 1..(i - 1) : keys[j] = keys[i])
    IN  [k \in 1..Len(dup) |-> dup[k] - 1]

\* seenRows.get(key): the 0-based index of the first row with the key of row index
FirstOccurrence(rows, index) ==
    (CHOOSE j \in 1..(index + 1) :
        /\ JSONstringify(rows[j]) = JSONstringify(rows[index + 1])
        /\ \A k \in 1..(j - 1) : JSONstringify(rows[k]) # JSONstringify(rows[index + 1])) - 1

-----------------------------------------------------------------------------
(* DataCleaning: analyzeDataAndCreateSteps *)

\* the emptiness test of the cleaning component
IsBlank(c) == c = EmptyString \/ c = Null \/ c = Undefined

IsNumber(c) == c.t = "number"
IsString(c) == c.t = "string"

Step(type, column, value, affectedRows, selectable) ==
    [type |-> type, column |-> column, value |-> value, applied |-> FALSE,
     issues |-> Len(affectedRows), affectedRows |-> affectedRows,
     hasSelectedRows |-> selectable, selectedRows |-> {}]

StepId(step) == <<step.type, step.column>>

DuplicateSteps(d) ==
    LET duplicateRowIndices == DuplicateRowIndices(d.rows)
    IN  IF Len(duplicateRowIndices) > 0
        THEN <<Step("remove_duplicates", <<>>, Undefined, duplicateRowIndices, FALSE)>>
        ELSE <<>>

\* the most frequent value, the first encountered among equally frequent ones
MostCommon(values) ==
    LET count(v) == Cardinality({i \in 1..Len(values) : values[i] = v})
        best == CHOOSE i \in 1..Len(values) :
                   /\ \A j \in 1..Len(values) : count(values[j]) <= count(values[i])
                   /\ \A j \in 1..(i - 1) : count(values[j]) < count(values[i])
    IN  values[best]

SuggestedValue(columnData) ==
    LET nonEmptyValues == Filter(columnData, LAMBDA c : ~IsBlank(c))
        numericValues  == Filter(nonEmptyValues, IsNumber)
    IN  IF 2 * Len(numericValues) > Len(nonEmptyValues)
        THEN Num(RoundDiv(SumSeq([i \in 1..Len(numericValues) |-> numericValues[i].n]),
                          Len(numericValues)))
        ELSE IF Len(nonEmptyValues) > 0 THEN MostCommon(nonEmptyValues)
        ELSE Str(<<"U","n","k","n","o","w","n">>)

FillStepOf(d, header) ==
    LET colIndex == IndexOf(d.headers, header)
        columnData == Column(d.rows, colIndex)
        missingRowIndices == IndicesWhere(columnData, IsBlank)
    IN  IF Len(missingRowIndices) > 0
        THEN <<Step("fill_missing", header, SuggestedValue(columnData), missingRowIndices, TRUE)>>
        ELSE <<>>

\* headers.forEach(header => ... steps.push(...)): the steps of all headers, in header order
RECURSIVE Flatten(_)
Flatten(seqs) == IF seqs = <<>> THEN <<>> ELSE Head(seqs) \o Flatten(Tail(seqs))

ForEachHeader(d, StepOf(_, _)) ==
    Flatten([i \in 1..Len(d.headers) |-> StepOf(d, d.headers[i])])

FillSteps(d) == ForEachHeader(d, FillStepOf)

RECURSIVE SortAsc(_)
SortAsc(seq) ==
    IF seq = <<>> THEN <<>>
    ELSE LET rest == SortAsc(Tail(seq))
         IN  SelectSeq(rest, LAMBDA y : y <= Head(seq)) \o <<Head(seq)>>
             \o SelectSeq(rest, LAMBDA y : y > Head(seq))

\* the quartiles taken one place lower in the sorted values
IQRBoundsOnePlaceLower(sortedValues) ==
    LET q1 == sortedValues[Len(sortedValues) \div 4]
        q3 == sortedValues[(3 * Len(sortedValues)) \div 4]
        iqr == q3 - q1
    IN  [q1 |-> q1, q3 |-> q3, lower2 |-> 2 * q1 - 3 * iqr, upper2 |-> 2 * q3 + 3 * iqr]

\* q1 = sorted[floor(n * 0.25)], q3 = sorted[floor(n * 0.75)], and the bounds
\* q1 - 1.5 * iqr and q3 + 1.5 * iqr, both doubled to stay in the integers
\* (the values are finite: the datasets given to DataCleaning hold no Infinity)
IQRBounds(sortedValues) ==
    LET q1 == sortedValues[(Len(sortedValues) \div 4) + 1]
        q3 == sortedValues[((3 * Len(sortedValues)) \div 4) + 1]
        iqr == q3 - q1
    IN  [q1 |-> q1, q3 |-> q3, lower2 |-> 2 * q1 - 3 * iqr, upper2 |-> 2 * q3 + 3 * iqr]

IsOutlier(value, bounds) == 2 * value < bounds.lower2 \/ 2 * value > bounds.upper2

OutlierMinCount == 4

OutlierStepOf(d, column) ==
    LET colIndex == IndexOf(d.headers, column)
        values == Column(d.rows, colIndex)
        numericValues == Filter(values, IsNumber)
        sortedValues == SortAsc([i \in 1..Len(numericValues) |-> numericValues[i].n])
        bounds == IQRBounds(sortedValues)
        outlierItems == IndicesWhere(values,
                            LAMBDA c : IsNumber(c) /\ IsOutlier(c.n, bounds))
    IN  IF /\ 2 * Len(numericValues) > Len(values)
           /\ Len(numericValues) > OutlierMinCount
           /\ Len(outlierItems) > 0
        THEN <<Step("remove_outliers", column, Undefined, outlierItems, FALSE)>>
        ELSE <<>>

OutlierSteps(d) == ForEachHeader(d, OutlierStepOf)

\* value !== value.trim().toLowerCase() || value.includes('  ')
NeedsStandardizing(c) ==
    IsString(c) /\ (c.s # ToLowerCase(Trim(c.s)) \/ Includes(c.s, <<" ", " ">>))

StandardizeStepOf(d, column) ==
    LET colIndex == IndexOf(d.headers, column)
        values == Column(d.rows, colIndex)
        textValues == Filter(values, IsString)
        inconsistentRows == IndicesWhere(values, NeedsStandardizing)
    IN  IF 2 * Len(textValues) > Len(values) /\ Len(inconsistentRows) > 0
        THEN <<Step("standardize", column, Undefined, inconsistentRows, FALSE)>>
        ELSE <<>>

StandardizeSteps(d) == ForEachHeader(d, StandardizeStepOf)

\* the fill steps are pushed before the duplicates step
analyzeDataAndCreateStepsFillFirst(d) ==
    FillSteps(d) \o DuplicateSteps(d) \o OutlierSteps(d) \o StandardizeSteps(d)

analyzeDataAndCreateSteps(d) ==
    DuplicateSteps(d) \o FillSteps(d) \o OutlierSteps(d) \o StandardizeSteps(d)

-----------------------------------------------------------------------------
(* DataCleaning: applyAllSelectedSteps *)

\* cleanedData = data: the running dataset is the object data itself
RunningOnData(d) ==
    [headers |-> d.headers, rows |-> d.rows,
     origin |-> [i \in 1..Len(d.rows) |-> i - 1],
     input |-> d, fresh |-> FALSE, freshRows |-> FALSE]

\* a running dataset: the headers and rows of cleanedData, for every row the
\* 0-based index of the row of data it comes from (history only), the object
\* data as it is now (input), whether cleanedData is an object of its own
\* (fresh) and whether its rows are arrays of their own (freshRows).
\* let cleanedData = { ...data }: a new object holding the row arrays of data
Running(d) ==
    [headers |-> d.headers, rows |-> d.rows,
     origin |-> [i \in 1..Len(d.rows) |-> i - 1],
     input |-> d, fresh |-> TRUE, freshRows |-> FALSE]

\* cleanedData.rows = next.rows: a write to the object cleanedData, which
\* reaches data when the two are one object
AssignRows(acc, next) ==
    [next EXCEPT !.input = IF acc.fresh THEN @ ELSE [@ EXCEPT !.rows = next.rows]]

\* newRow[colIndex] = value in the rows: writes to the row arrays, which reach
\* the rows of data when the arrays are those of data; copied tells that the
\* rows written to come from const newRow = [...row]
WriteRows(acc, copied, rows) ==
    [acc EXCEPT
        !.rows = rows,
        !.freshRows = @ \/ copied,
        !.input = IF acc.freshRows \/ copied THEN @
                  ELSE [@ EXCEPT !.rows = [k \in 1..Len(@) |->
                           IF \E i \in 1..Len(rows) : acc.origin[i] = k - 1
                           THEN rows[CHOOSE i \in 1..Len(rows) : acc.origin[i] = k - 1]
                           ELSE @[k]]]]

\* rows.filter((row, i) => Keep(i)) with the 1-based positions kept
KeepRows(acc, Keep(_)) ==
    LET kept == SelectSeq([i \in 1..Len(acc.rows) |-> i], Keep)
    IN  [acc EXCEPT !.rows = [k \in 1..Len(kept) |-> acc.rows[kept[k]]],
                    !.origin = [k \in 1..Len(kept) |-> acc.origin[kept[k]]]]

\* newRow.push(value): the value is added at the end of the row
SetAtPush(row, colIndex, value) == Append(row, value)

\* newRow[colIndex] = value
SetAt(row, colIndex, value) ==
    [i \in 1..(IF colIndex + 1 > Len(row) THEN colIndex + 1 ELSE Len(row)) |->
        IF i = colIndex + 1 THEN value ELSE At(row, i - 1)]

\* a row is dropped only when the row just before it has the same key
RemoveDuplicatesAdjacent(acc) ==
    LET keys == [i \in 1..Len(acc.rows) |-> JSONstringify(acc.rows[i])]
    IN  KeepRows(acc, LAMBDA i : ~(i > 1 /\ keys[i - 1] = keys[i]))

\* cleanedData = { ...cleanedData, rows: filteredRows }: a new object
RemoveDuplicates(acc) ==
    LET keys == [i \in 1..Len(acc.rows) |-> JSONstringify(acc.rows[i])]
    IN  [KeepRows(acc, LAMBDA i : ~\E j \in 1..(i - 1) : keys[j] = keys[i])
            EXCEPT !.fresh = TRUE]

ShouldFill(step, rowIndex) ==
    ~step.hasSelectedRows \/ step.selectedRows = {} \/ rowIndex \in step.selectedRows

FillMissing(acc, step) ==
    LET colIndex == IndexOf(acc.headers, step.column)
    IN  IF step.column # <<>> /\ step.value # Undefined /\ colIndex # -1
        THEN AssignRows(acc, WriteRows(acc, TRUE, [i \in 1..Len(acc.rows) |->
                 IF ShouldFill(step, i - 1) /\ IsBlank(At(acc.rows[i], colIndex))
                 THEN SetAt(acc.rows[i], colIndex, step.value)
                 ELSE acc.rows[i]]))
        ELSE acc

\* the rows found to be outliers when the step was built are dropped
RemoveOutliersFoundAtBuild(acc, step) ==
    KeepRows(acc, LAMBDA i : acc.origin[i] \notin Range(step.affectedRows))

\* the filter keeps only the numbers inside the bounds
RemoveOutliersAndNonNumbers(acc, step) ==
    LET colIndex == IndexOf(acc.headers, step.column)
        numbers == Filter(Column(acc.rows, colIndex), IsNumber)
        numericValues == SortAsc([i \in 1..Len(numbers) |-> numbers[i].n])
        bounds == IQRBounds(numericValues)
    IN  IF step.column # <<>> /\ colIndex # -1 /\ Len(numericValues) > 0
        THEN AssignRows(acc, KeepRows(acc, LAMBDA i :
                 LET value == At(acc.rows[i], colIndex)
                 IN  IsNumber(value) /\ ~IsOutlier(value.n, bounds)))
        ELSE acc

RemoveOutliers(acc, step) ==
    LET colIndex == IndexOf(acc.headers, step.column)
        numbers == Filter(Column(acc.rows, colIndex), IsNumber)
        numericValues == SortAsc([i \in 1..Len(numbers) |-> numbers[i].n])
        bounds == IQRBounds(numericValues)
    IN  IF step.column # <<>> /\ colIndex # -1 /\ Len(numericValues) > 0
        THEN AssignRows(acc, KeepRows(acc, LAMBDA i :
                 LET value == At(acc.rows[i], colIndex)
                 IN  ~IsNumber(value) \/ ~IsOutlier(value.n, bounds)))
        ELSE acc

\* newRow[colIndex] = newRow[colIndex].trim().toLowerCase().replace(/\s+/g, ' ')
Standardize(acc, step) ==
    LET colIndex == IndexOf(acc.headers, step.column)
    IN  IF step.column # <<>> /\ colIndex # -1
        THEN AssignRows(acc, WriteRows(acc, TRUE, [i \in 1..Len(acc.rows) |->
                 IF IsString(At(acc.rows[i], colIndex))
                 THEN SetAt(acc.rows[i], colIndex,
                            Str(CollapseSpaces(ToLowerCase(Trim(At(acc.rows[i], colIndex).s)))))
                 ELSE acc.rows[i]]))
        ELSE acc

\* the switch on operation.type
ApplyStep(acc, step) ==
    CASE step.type = "remove_duplicates" -> RemoveDuplicates(acc)
      [] step.type = "fill_missing" -> FillMissing(acc, step)
      [] step.type = "remove_outliers" -> RemoveOutliers(acc, step)
      [] step.type = "standardize" -> Standardize(acc, step)
      [] OTHER -> acc

\* for (const step of appliedSteps)
RECURSIVE RunSteps(_, _)
RunSteps(acc, steps) ==
    IF steps = <<>> THEN acc ELSE RunSteps(ApplyStep(acc, Head(steps)), Tail(steps))

\* every step runs, applied or not
AppliedStepsAll(steps) == steps

AppliedSteps(steps) == Filter(steps, LAMBDA step : step.applied)

\* the running dataset at the end of the loop of applyAllSelectedSteps
CleanRun(d, steps) == RunSteps(Running(d), AppliedSteps(steps))

\* the dataset handed to setPreviewData and onDataCleaned
Delivered(run) ==
    [headers |-> run.headers, rows |-> run.rows,
     filename |-> "cleaned_" \o run.input.filename]


\* the object data at the end of applyAllSelectedSteps;
\* cleanedData.filename = ... is a write to the object cleanedData
InputAfter(run) ==
    IF run.fresh THEN run.input
    ELSE [run.input EXCEPT !.filename = "cleaned_" \o @]

-----------------------------------------------------------------------------
(* QualityAnalysis: conversions and patterns *)

DigitChars == <<"0","1","2","3","4","5","6","7","8","9">>

IsDigit(c) == \E i \in 1..10 : DigitChars[i] = c
DigitValue(c) == (CHOOSE i \in 1..10 : DigitChars[i] = c) - 1
AllDigits(s) == \A i \in 1..Len(s) : IsDigit(s[i])

RECURSIVE Digits(_)
Digits(n) == IF n < 10 THEN <<DigitChars[n + 1]>>
             ELSE Digits(n \div 10) \o <<DigitChars[(n % 10) + 1]>>

\* String(val)
ToStr(c) ==
    CASE c.t = "string" -> c.s
      [] c.t = "number" /\ c.inf = 1 -> <<"I","n","f","i","n","i","t","y">>
      [] c.t = "number" /\ c.inf = -1 -> <<"-","I","n","f","i","n","i","t","y">>
      [] c.t = "number" /\ c.inf = 0 ->
            LET a == IF c.n < 0 THEN -c.n ELSE c.n
                frac == a % 100
            IN  (IF c.n < 0 THEN <<"-">> ELSE <<>>) \o Digits(a \div 100)
                \o (IF frac = 0 THEN <<>>
                    ELSE IF frac % 10 = 0 THEN <<".", DigitChars[(frac \div 10) + 1]>>
                    ELSE <<".", DigitChars[(frac \div 10) + 1], DigitChars[(frac % 10) + 1]>>)
      [] c.t = "object" -> <<"n","u","l","l">>
      [] OTHER -> <<"u","n","d","e","f","i","n","e","d">>

RECURSIVE DigitsValue(_)
DigitsValue(s) == IF s = <<>> THEN 0
                  ELSE 10 * DigitsValue(SubSeq(s, 1, Len(s) - 1)) + DigitValue(s[Len(s)])

\* the decimal literals Number() reads: digits with an optional fraction of at
\* most two digits (longer fractions, exponents and radix prefixes do not occur
\* in the cells of the model)
IsDecimalLiteral(s) ==
    \/ s # <<>> /\ AllDigits(s)
    \/ \E p \in 1..Len(s) :
          /\ s[p] = "."
          /\ AllDigits(SubSeq(s, 1, p - 1)) /\ AllDigits(SubSeq(s, p + 1, Len(s)))
          /\ Len(s) > 1 /\ Len(s) - p <= 2

DecimalValue(s) ==
    IF AllDigits(s) THEN 100 * DigitsValue(s)
    ELSE LET p == CHOOSE p \in 1..Len(s) : s[p] = "."
             frac == SubSeq(s, p + 1, Len(s))
         IN  100 * DigitsValue(SubSeq(s, 1, p - 1))
             + (IF Len(frac) = 1 THEN 10 * DigitsValue(frac) ELSE DigitsValue(frac))

Unsigned(s) == IF s # <<>> /\ s[1] \in {"+", "-"} THEN Tail(s) ELSE s
SignOf(s) == IF s # <<>> /\ s[1] = "-" THEN -1 ELSE 1

\* Number(val): NaN is Undefined here, every other result is a number cell
ToNumber(c) ==
    CASE c.t = "number" -> c
      [] c.t = "object" -> Num(0)
      [] c.t = "string" ->
            LET t == Trim(c.s)
            IN  IF t = <<>> THEN Num(0)
                ELSE IF IsDecimalLiteral(Unsigned(t))
                     THEN Num(SignOf(t) * DecimalValue(Unsigned(t)))
                ELSE IF Unsigned(t) = <<"I","n","f","i","n","i","t","y">>
                     THEN (IF SignOf(t) = 1 THEN PosInfinity ELSE NegInfinity)
                ELSE Undefined
      [] OTHER -> Undefined

\* isNaN(Number(val))
IsNaNNumber(c) == ToNumber(c) = Undefined

\* x < bound and x > bound for a number cell x and an integer bound
LessThan(x, bound) == x.inf = -1 \/ (x.inf = 0 /\ x.n < 100 * bound)
GreaterThan(x, bound) == x.inf = 1 \/ (x.inf = 0 /\ x.n > 100 * bound)

\* /^[^\s@]+@[^\s@]+\.[^\s@]+$/
EmailPattern(s) ==
    /\ \A i \in 1..Len(s) : s[i] \notin WhiteSpace
    /\ Cardinality({i \in 1..Len(s) : s[i] = "@"}) = 1
    /\ LET at == CHOOSE i \in 1..Len(s) : s[i] = "@"
       IN  at > 1 /\ \E dot \in (at + 2)..(Len(s) - 1) : s[dot] = "."

\* String(val).replace(/[\s\-\(\)]/g, '')
CleanPhone(s) == SelectSeq(s, LAMBDA c : c \notin WhiteSpace \cup {"-", "(", ")"})

\* /^[\+]?[1-9][\d]{lo,hi}$/
PhoneDigits(s, lo, hi) ==
    LET body == IF s # <<>> /\ s[1] = "+" THEN Tail(s) ELSE s
    IN  /\ body # <<>>
        /\ IsDigit(body[1]) /\ body[1] # "0"
        /\ AllDigits(body)
        /\ Len(body) - 1 >= lo /\ Len(body) - 1 <= hi

PhonePattern(s) == PhoneDigits(s, 0, 15)

\* the shape d..d x d..d x d..d with groups of a, b and c digits
DigitGroups(s, a, b, c, sep) ==
    /\ Len(s) = a + b + c + 2
    /\ AllDigits(SubSeq(s, 1, a)) /\ s[a + 1] = sep
    /\ AllDigits(SubSeq(s, a + 2, a + b + 1)) /\ s[a + b + 2] = sep
    /\ AllDigits(SubSeq(s, a + b + 3, a + b + c + 2))

\* /^\d{4}-\d{2}-\d{2}$|^\d{2}\/\d{2}\/\d{4}$|^\d{2}-\d{2}-\d{4}$/
DatePattern(s) ==
    \/ DigitGroups(s, 4, 2, 2, "-")
    \/ DigitGroups(s, 2, 2, 4, "/")
    \/ DigitGroups(s, 2, 2, 4, "-")

\* Date.parse(String(val)) on the date-only form YYYY-MM-DD: the days since
\* year 0 in a 372-day calendar, which orders dates as time values do; NaN is -1.
\* Every other text is read as NaN (the other forms Date.parse accepts are left
\* to the implementation and are not given to the model).
DateParse(s) ==
    IF DigitGroups(s, 4, 2, 2, "-")
    THEN LET y == DigitsValue(SubSeq(s, 1, 4))
             m == DigitsValue(SubSeq(s, 6, 7))
             d == DigitsValue(SubSeq(s, 9, 10))
         IN  IF m \in 1..12 /\ d \in 1..31 THEN (y * 12 + (m - 1)) * 31 + (d - 1) ELSE -1
    ELSE -1

\* new Date() at the time of the analysis, as DateParse counts
Now == (2025 * 12) * 31

\* /^(.)\1+$/
RepeatedCharacter(s) == Len(s) >= 2 /\ \A i \in 1..Len(s) : s[i] = s[1]

StartsWith(s, prefix) == Len(s) >= Len(prefix) /\ SubSeq(s, 1, Len(prefix)) = prefix




\* /^\d{3}-\d{2}-\d{4}$/ or /^\d{9}$/
SSNPattern(s) == DigitGroups(s, 3, 2, 4, "-") \/ (Len(s) = 9 /\ AllDigits(s))

\* /^\d{4}[\s\-]?\d{4}[\s\-]?\d{4}[\s\-]?\d{4}$/
CreditCardPattern(s) ==
    LET digitsOnly == SelectSeq(s, IsDigit)
        separators == {i \in 1..Len(s) : ~IsDigit(s[i])}
    IN  /\ Len(digitsOnly) = 16
        /\ \A i \in separators :
              /\ s[i] \in WhiteSpace \cup {"-"}
              /\ Cardinality({j \in 1..(i - 1) : IsDigit(s[j])}) \in {4, 8, 12}
              /\ i > 1 /\ IsDigit(s[i - 1])

-----------------------------------------------------------------------------
(* QualityAnalysis: analyzeData *)

Issue(type, column, rowIndex, value, severity, original) ==
    [type |-> type, column |-> column, rowIndex |-> rowIndex, value |-> value,
     severity |-> severity, original |-> original]


\* counts[header] = count, written column after column: for a header name that
\* occurs twice the last column's count stays
ByHeader(d, CountOfColumn(_)) ==
    [header \in Range(d.headers) |->
        CountOfColumn((CHOOSE i \in 1..Len(d.headers) :
                          /\ d.headers[i] = header
                          /\ \A j \in (i + 1)..Len(d.headers) : d.headers[j] # header) - 1)]

\* columnData.forEach((val, rowIndex) => ...): the issues CellIssues pushes for
\* one column, row after row; columnType is what the pass has found for the column
ForEachRow(d, colIndex, columnType, CellIssues(_, _, _, _)) ==
    Flatten([r \in 1..Len(d.rows) |->
        CellIssues(d.headers[colIndex + 1], columnType, r - 1, At(d.rows[r], colIndex))])

\* data.headers.forEach((header, colIndex) => ...): the issues of all columns
ForEachCell(d, CellIssues(_, _, _, _)) ==
    Flatten([c \in 1..Len(d.headers) |-> ForEachRow(d, c - 1, "", CellIssues)])

\* the emptiness test of the Missing Values analysis
IsEmptyMarker(c) ==
    \/ c = EmptyString \/ c = Null \/ c = Undefined
    \/ c \in {Str(<<"n","u","l","l">>), Str(<<"N","U","L","L">>),
              Str(<<"N","/","A">>), Str(<<"n","/","a">>)}

MissingIssuesOfCell(header, columnType, rowIndex, val) ==
    IF IsEmptyMarker(val)
    THEN <<Issue("missing", header, rowIndex, val, "medium", -1)>>
    ELSE <<>>

DuplicateIssues(d) ==
    LET duplicateRowIndices == DuplicateRowIndices(d.rows)
    IN  [k \in 1..Len(duplicateRowIndices) |->
            Issue("duplicate", <<"A","l","l"," ","c","o","l","u","m","n","s">>, duplicateRowIndices[k],
                  Undefined, "high", FirstOccurrence(d.rows, duplicateRowIndices[k]))]

HeaderIncludes(header, word) == Includes(ToLowerCase(header), word)

HeaderWords ==
    [email |-> <<"e","m","a","i","l">>,
     phone |-> <<"p","h","o","n","e">>,
     mobile |-> <<"m","o","b","i","l","e">>,
     date |-> <<"d","a","t","e">>,
     dob |-> <<"d","o","b">>,
     age |-> <<"a","g","e">>,
     salary |-> <<"s","a","l","a","r","y">>,
     income |-> <<"i","n","c","o","m","e">>,
     birth |-> <<"b","i","r","t","h">>,
     ship |-> <<"s","h","i","p">>,
     order |-> <<"o","r","d","e","r">>]

\* typeof val === 'number' || (!isNaN(Number(val)) && val !== '')
CountsAsNumeric(val) == IsNumber(val) \/ (~IsNaNNumber(val) /\ val # EmptyString)

\* numericValues.length > columnData.length * 0.7
ColumnType(d, colIndex) ==
    LET columnData == Column(d.rows, colIndex)
        numericValues == Filter(columnData, CountsAsNumeric)
        header == d.headers[colIndex + 1]
    IN  IF 10 * Len(numericValues) > 7 * Len(columnData) THEN "numeric"
        ELSE IF HeaderIncludes(header, HeaderWords.email) THEN "email"
        ELSE IF HeaderIncludes(header, HeaderWords.phone) \/ HeaderIncludes(header, HeaderWords.mobile) THEN "phone"
        ELSE IF HeaderIncludes(header, HeaderWords.date) \/ HeaderIncludes(header, HeaderWords.dob) THEN "date"
        ELSE "text"

\* the switch on columnType without its case 'email'
IsInvalidFormatNoEmailCase(columnType, val) ==
    CASE columnType = "phone" ->
            LET cleanPhone == CleanPhone(ToStr(val))
            IN  ~PhonePattern(cleanPhone) \/ Len(cleanPhone) < 10 \/ Len(cleanPhone) > 15
      [] columnType = "date" -> ~DatePattern(ToStr(val)) /\ DateParse(ToStr(val)) = -1
      [] columnType = "numeric" -> IsNaNNumber(val)
      [] OTHER -> FALSE

\* the switch on columnType with the phone case testing the pattern only
IsInvalidFormatNoPhoneLength(columnType, val) ==
    CASE columnType = "email" -> ~EmailPattern(ToStr(val))
      [] columnType = "phone" -> ~PhonePattern(CleanPhone(ToStr(val)))
      [] columnType = "date" -> ~DatePattern(ToStr(val)) /\ DateParse(ToStr(val)) = -1
      [] columnType = "numeric" -> IsNaNNumber(val)
      [] OTHER -> FALSE

IsInvalidFormat(columnType, val) ==
    CASE columnType = "email" -> ~EmailPattern(ToStr(val))
      [] columnType = "phone" ->
            LET cleanPhone == CleanPhone(ToStr(val))
            IN  ~PhonePattern(cleanPhone) \/ Len(cleanPhone) < 10 \/ Len(cleanPhone) > 15
      [] columnType = "date" -> ~DatePattern(ToStr(val)) /\ DateParse(ToStr(val)) = -1
      [] columnType = "numeric" -> IsNaNNumber(val)
      [] OTHER -> FALSE

FormatIssuesOfCell(header, columnType, rowIndex, val) ==
    IF ~IsBlank(val) /\ IsInvalidFormat(columnType, val)
    THEN <<Issue("invalid_format", header, rowIndex, val, "high", -1)>>
    ELSE <<>>

\* the Invalid Format pass: the column type is detected first, then every cell is tested
FormatIssuesOfColumn(d, colIndex) ==
    ForEachRow(d, colIndex, ColumnType(d, colIndex), FormatIssuesOfCell)

\* the issues of the first column only are pushed to the list
FormatIssuesFirstColumnOnly(d) ==
    IF d.headers = <<>> THEN <<>> ELSE FormatIssuesOfColumn(d, 0)

FormatIssues(d) ==
    Flatten([c \in 1..Len(d.headers) |-> FormatIssuesOfColumn(d, c - 1)])

IsOutOfRange(header, val) ==
    \/ /\ HeaderIncludes(header, HeaderWords.age)
       /\ ~IsNaNNumber(val)
       /\ (LessThan(ToNumber(val), 0) \/ GreaterThan(ToNumber(val), 150))
    \/ /\ HeaderIncludes(header, HeaderWords.salary) \/ HeaderIncludes(header, HeaderWords.income)
       /\ ~IsNaNNumber(val)
       /\ LessThan(ToNumber(val), 0)
    \/ /\ HeaderIncludes(header, HeaderWords.dob) \/ HeaderIncludes(header, HeaderWords.birth)
       /\ DateParse(ToStr(val)) # -1
       /\ (DateParse(ToStr(val)) > Now \/ DateParse(ToStr(val)) < (1900 * 12) * 31)
    \/ /\ HeaderIncludes(header, HeaderWords.phone)
       /\ (Len(CleanPhone(ToStr(val))) < 10 \/ Len(CleanPhone(ToStr(val))) > 15)

RangeIssuesOfCell(header, columnType, rowIndex, val) ==
    IF ~IsBlank(val) /\ IsOutOfRange(header, val)
    THEN <<Issue("value_range", header, rowIndex, val, "high", -1)>>
    ELSE <<>>

\* val.charAt(0).toUpperCase() + val.slice(1).toLowerCase()
Capitalized(s) == IF s = <<>> THEN <<>> ELSE <<UpperChar(s[1])>> \o ToLowerCase(Tail(s))

HasTextIssue(s) ==
    \/ s # ToLowerCase(s) /\ s # ToUpperCase(s) /\ s # Capitalized(s)
    \/ s # Trim(s) \/ Includes(s, <<" ", " ">>)

\* data.headers.findIndex(h => includes 'order' && includes 'date'), 0-based or -1
OrderDateCol(d) ==
    LET hits == {i \in 1..Len(d.headers) :
                    HeaderIncludes(d.headers[i], HeaderWords.order) /\ HeaderIncludes(d.headers[i], HeaderWords.date)}
    IN  IF hits = {} THEN -1 ELSE (CHOOSE i \in hits : \A j \in hits : i <= j) - 1

\* shipDate && orderDate: neither is '', 0, null or undefined
Truthy(c) == ~IsBlank(c) /\ c # Num(0)

InconsistentIssuesOfCell(header, columnType, rowIndex, val) ==
    IF columnType = "text" /\ IsString(val) /\ val # EmptyString /\ HasTextIssue(val.s)
    THEN <<Issue("inconsistent", header, rowIndex, val, "low", -1)>>
    ELSE <<>>

ShipDateIssuesOfColumn(d, colIndex) ==
    LET header == d.headers[colIndex + 1]
        orderDateCol == OrderDateCol(d)
    IN  IF /\ HeaderIncludes(header, HeaderWords.ship)
           /\ \E i \in 1..Len(d.headers) : HeaderIncludes(d.headers[i], HeaderWords.order)
           /\ orderDateCol # -1
        THEN Flatten([r \in 1..Len(d.rows) |->
                 LET shipDate == At(d.rows[r], colIndex)
                     orderDate == At(d.rows[r], orderDateCol)
                 IN  IF /\ Truthy(shipDate) /\ Truthy(orderDate)
                        /\ DateParse(ToStr(shipDate)) # -1
                        /\ DateParse(ToStr(orderDate)) # -1
                        /\ DateParse(ToStr(shipDate)) < DateParse(ToStr(orderDate))
                     THEN <<Issue("inconsistent", header, r - 1, shipDate, "high", -1)>>
                     ELSE <<>>])
        ELSE <<>>

\* dataTypes[header]: the type the Invalid Format pass stored under the header
\* name, which for a name that occurs twice is the type of the last such column
DataTypes(d) == ByHeader(d, LAMBDA c : ColumnType(d, c))

\* per header: the text formatting pass over the column, then the ship date pass
InconsistentIssuesOfColumn(d, colIndex) ==
    ForEachRow(d, colIndex, DataTypes(d)[d.headers[colIndex + 1]], InconsistentIssuesOfCell)
    \o ShipDateIssuesOfColumn(d, colIndex)

InconsistentIssues(d) ==
    Flatten([c \in 1..Len(d.headers) |-> InconsistentIssuesOfColumn(d, c - 1)])

IsUnusual(header, strVal) ==
    LET sequentialRuns == {<<"0","1","2","3","4","5","6","7","8","9">>,
                           <<"1","2","3","4","5","6","7","8","9","0">>,
                           <<"a","b","c","d","e","f","g","h","i","j">>}
        dummyPatterns == {<<"t","e","s","t">>, <<"d","u","m","m","y">>,
                          <<"s","a","m","p","l","e">>, <<"e","x","a","m","p","l","e">>,
                          <<"p","l","a","c","e","h","o","l","d","e","r">>,
                          <<"t","e","m","p">>, <<"x","x","x">>, <<"y","y","y">>,
                          <<"z","z","z">>}
        testEmailPatterns == {<<"t","e","s","t","@">>, <<"d","u","m","m","y","@">>,
                              <<"e","x","a","m","p","l","e","@">>,
                              <<"@","t","e","s","t",".">>, <<"@","d","u","m","m","y",".">>}
    IN  \/ Len(strVal) > 3 /\ RepeatedCharacter(strVal)
        \/ Len(strVal) > 4
           /\ \E run \in sequentialRuns : StartsWith(ToLowerCase(strVal), run)
        \/ \E pattern \in dummyPatterns : Includes(ToLowerCase(strVal), pattern)
        \/ /\ HeaderIncludes(header, HeaderWords.email)
           /\ \E pattern \in testEmailPatterns : Includes(strVal, pattern)

UnusualIssuesOfCell(header, columnType, rowIndex, val) ==
    IF ~IsBlank(val) /\ IsUnusual(header, ToStr(val))
    THEN <<Issue("unusual_pattern", header, rowIndex, val, "medium", -1)>>
    ELSE <<>>

SensitiveIssuesOfCell(header, columnType, rowIndex, val) ==
    LET strVal == ToStr(val)
        issue == <<Issue("sensitive_data", header, rowIndex, val, "critical", -1)>>
    IN  IF IsBlank(val) THEN <<>>
        ELSE (IF EmailPattern(strVal) THEN issue ELSE <<>>)
             \o (IF PhoneDigits(CleanPhone(strVal), 9, 14) THEN issue ELSE <<>>)
             \o (IF SSNPattern(strVal) THEN issue ELSE <<>>)
             \o (IF CreditCardPattern(strVal) THEN issue ELSE <<>>)

\* the issues array at the end of the seven passes
IssuesOf(d) ==
    ForEachCell(d, MissingIssuesOfCell)
    \o DuplicateIssues(d)
    \o FormatIssues(d)
    \o ForEachCell(d, RangeIssuesOfCell)
    \o InconsistentIssues(d)
    \o ForEachCell(d, UnusualIssuesOfCell)
    \o ForEachCell(d, SensitiveIssuesOfCell)

-----------------------------------------------------------------------------
(* QualityAnalysis: scores and report *)

\* Object.values(counts).reduce((sum, count) => sum + count, 0)
RECURSIVE SumValues(_)
SumValues(counts) ==
    IF DOMAIN counts = {} THEN 0
    ELSE LET k == CHOOSE k \in DOMAIN counts : TRUE
         IN  counts[k] + SumValues([j \in DOMAIN counts \ {k} |-> counts[j]])

\* the percentage cut down to an integer instead of rounded
RoundedPercentFloor(part, whole) ==
    IF whole = 0 THEN NaN ELSE Fin((100 * part) \div whole)

\* the percentage of what is left of the whole without the part
RoundedPercentOfRest(part, whole) ==
    IF whole = 0 THEN NaN ELSE Fin(RoundDiv(100 * (whole - part), whole))

\* Math.round((part / whole) * 100): 0 / 0 is NaN. The quotient is exact here;
\* on the datasets of the model the doubles of the code round to the same integer
RoundedPercent(part, whole) ==
    IF whole = 0 THEN NaN ELSE Fin(RoundDiv(100 * part, whole))

\* Math.max(0, Math.round(100 - (count / totalRows) * 100)): Math.max(0, NaN) is NaN
PenaltyScore(count, totalRows) ==
    IF totalRows = 0 THEN NaN
    ELSE LET rounded == RoundDiv(100 * totalRows - 100 * count, totalRows)
         IN  Fin(IF rounded < 0 THEN 0 ELSE rounded)

\* the weight of the missing values score is 0.25
OverallScoreWeightOff(m, dup, f, r, i, u, p, halfUp) ==
    IF m.nan \/ dup.nan \/ f.nan \/ r.nan \/ i.nan \/ u.nan \/ p.nan THEN NaN
    ELSE Fin(RoundDiv(25 * m.v + 15 * dup.v + 15 * f.v + 15 * r.v
                      + 10 * i.v + 10 * u.v + 15 * p.v, 100))

\* Math.round of the weighted sum: NaN as soon as one score is NaN. The weights
\* 0.20, 0.15 and 0.10 are no exact doubles, so a sum that is exactly halfway
\* between two integers comes out just below or at the half: halfUp tells
\* which way the doubles of the code take it. Every other sum rounds as the
\* exact one does.
OverallScore(m, dup, f, r, i, u, p, halfUp) ==
    IF m.nan \/ dup.nan \/ f.nan \/ r.nan \/ i.nan \/ u.nan \/ p.nan THEN NaN
    ELSE LET sum100 == 20 * m.v + 15 * dup.v + 15 * f.v + 15 * r.v
                       + 10 * i.v + 10 * u.v + 15 * p.v
         IN  IF sum100 % 100 = 50 /\ ~halfUp THEN Fin(sum100 \div 100)
             ELSE Fin(RoundDiv(sum100, 100))

CountType(issues, type) == Len(Filter(issues, LAMBDA issue : issue.type = type))
CountSeverity(issues, severity) == Len(Filter(issues, LAMBDA issue : issue.severity = severity))

generateRecommendations(score, issues, totalRows) ==
    (IF ~score.nan /\ score.v < 60 THEN <<"critical_overhaul">>
     ELSE IF ~score.nan /\ score.v < 80 THEN <<"warning">> ELSE <<>>)
    \o (IF CountSeverity(issues, "critical") > 0 THEN <<"privacy_alert">> ELSE <<>>)
    \o (IF CountType(issues, "sensitive_data") > 0 THEN <<"compliance_risk">> ELSE <<>>)
    \o (IF CountSeverity(issues, "high") > 0 THEN <<"high_priority">> ELSE <<>>)
    \o (IF 10 * CountType(issues, "missing") > totalRows THEN <<"validation_rules">> ELSE <<>>)
    \o (IF CountType(issues, "duplicate") > 0 THEN <<"deduplication">> ELSE <<>>)
    \o (IF CountType(issues, "invalid_format") > 0 THEN <<"standardize_formats">> ELSE <<>>)
    \o (IF CountType(issues, "value_range") > 0 THEN <<"range_validation">> ELSE <<>>)
    \o (IF CountType(issues, "unusual_pattern") > 0 THEN <<"review_dummy_data">> ELSE <<>>)

Recommendations(score, issues, totalRows) ==
    IF generateRecommendations(score, issues, totalRows) = <<>> THEN <<"excellent">>
    ELSE generateRecommendations(score, issues, totalRows)

\* missingValuesScore: the rounded percentage of the cells that are not missing
MissingValuesScoreOf(d) ==
    LET totalCells == Len(d.rows) * Len(d.headers)
        missingValues ==
            ByHeader(d, LAMBDA c : Len(ForEachRow(d, c, "", MissingIssuesOfCell)))
        totalMissing == SumValues(missingValues)
    IN  RoundedPercent(totalCells - totalMissing, totalCells)

QualityReportOf(d, halfUp) ==
    LET issues == IssuesOf(d)
        totalRows == Len(d.rows)
        totalCells == Len(d.rows) * Len(d.headers)
        missingValues ==
            ByHeader(d, LAMBDA c : Len(ForEachRow(d, c, "", MissingIssuesOfCell)))
        formatIssues == ByHeader(d, LAMBDA c : Len(FormatIssuesOfColumn(d, c)))
        rangeIssues == ByHeader(d, LAMBDA c : Len(ForEachRow(d, c, "", RangeIssuesOfCell)))
        inconsistencyIssues == ByHeader(d, LAMBDA c : Len(InconsistentIssuesOfColumn(d, c)))
        unusualPatterns ==
            ByHeader(d, LAMBDA c : Len(ForEachRow(d, c, "", UnusualIssuesOfCell)))
        duplicateRows == Len(DuplicateRowIndices(d.rows))
        totalMissing == SumValues(missingValues)
        totalSensitiveData == CountType(issues, "sensitive_data")
        missingValuesScore == MissingValuesScoreOf(d)
        duplicatesScore == RoundedPercent(totalRows - duplicateRows, totalRows)
        invalidFormatScore == PenaltyScore(SumValues(formatIssues), totalRows)
        valueRangeScore == PenaltyScore(SumValues(rangeIssues), totalRows)
        inconsistentValuesScore == PenaltyScore(SumValues(inconsistencyIssues), totalRows)
        unusualPatternsScore == PenaltyScore(SumValues(unusualPatterns), totalRows)
        sensitiveDataScore == IF totalSensitiveData = 0 THEN Fin(100)
                              ELSE PenaltyScore(totalSensitiveData, totalRows)
        overallScore == OverallScore(missingValuesScore, duplicatesScore, invalidFormatScore,
                                     valueRangeScore, inconsistentValuesScore,
                                     unusualPatternsScore, sensitiveDataScore, halfUp)
    IN  [totalRows |-> totalRows,
         totalColumns |-> Len(d.headers),
         overallScore |-> overallScore,
         missingValuesScore |-> missingValuesScore,
         duplicatesScore |-> duplicatesScore,
         invalidFormatScore |-> invalidFormatScore,
         valueRangeScore |-> valueRangeScore,
         inconsistentValuesScore |-> inconsistentValuesScore,
         unusualPatternsScore |-> unusualPatternsScore,
         sensitiveDataScore |-> sensitiveDataScore,
         missingValues |-> missingValues,
         duplicateRows |-> duplicateRows,
         dataTypes |-> DataTypes(d),
         formatIssues |-> formatIssues,
         rangeIssues |-> rangeIssues,
         inconsistencyIssues |-> inconsistencyIssues,
         unusualPatterns |-> unusualPatterns,
         recommendations |-> Recommendations(overallScore, issues, totalRows)]

-----------------------------------------------------------------------------
(* Datasets given to DataCleaning *)

NoData == [none |-> TRUE]
NoReport == [none |-> TRUE]
NoInsights == [none |-> TRUE]

HeaderName == <<"n","a","m","e">>


SeqsUpTo(S, n) == UNION {[1..k -> S] : k \in 0..n}

\* two columns, a text column and a numeric column, up to MaxRows rows
MixedDatasets ==
    {[headers |-> <<HeaderName, HeaderWords.age>>, rows |-> rows, filename |-> "d.csv"] :
        rows \in SeqsUpTo({<<a, b>> :
                              a \in {EmptyString, Str(<<"A","b">>), Str(<<"N","/","A">>)},
                              b \in {Int100(1), Int100(2)}}, MaxRows)}

\* one numeric column with enough values for the quartiles
OutlierDatasets ==
    {[headers |-> <<HeaderWords.age>>, rows |-> rows, filename |-> "d.csv"] :
        rows \in [1..OutlierRows -> {<<c>> : c \in {EmptyString, Int100(1), Int100(9)}}]}


\* two headers and up to MaxWideRows lines of one, two or three values: parseCSV
\* splits every line on its own commas, whatever the number of headers
RaggedDatasets ==
    {[headers |-> <<HeaderName, HeaderWords.age>>, rows |-> rows, filename |-> "d.csv"] :
        rows \in SeqsUpTo({<<Str(<<"A","b">>)>>,
                           <<Str(<<"A","b">>), Int100(1)>>,
                           <<Str(<<"A","b">>), Int100(1), Int100(200)>>}, MaxWideRows)}

\* the texts typed into the fill value field
UserValues == {Str(<<"z">>)}

-----------------------------------------------------------------------------
(* DataCleaning: the component *)

InitCleaning ==
    /\ data \in {d \in MixedDatasets : Len(d.rows) <= MaxCleaningRows}
    /\ cleaningSteps = analyzeDataAndCreateSteps(data)
    /\ previewData = data
    /\ isProcessing = FALSE
    /\ runSteps = <<>>
    /\ cleanedData = NoData
    /\ cleanedOrigin = <<>>
    /\ edits = 0
    /\ isAnalyzing = FALSE
    /\ report = NoReport
    /\ detailedIssues = <<>>
    /\ scores = <<>>
    /\ aiInsights = NoInsights
    /\ network = NoInsights
    /\ activeTab = "cleaning"
    /\ pendingCalls = [analysis |-> {}, cleaning |-> {}]

StepIds == {StepId(cleaningSteps[i]) : i \in 1..Len(cleaningSteps)}
FillStepIds == {id \in StepIds : id[1] = "fill_missing"}

\* setCleaningSteps(prev => prev.map(step => step.id === stepId ? Change(step) : step))
MapStep(steps, stepId, Change(_)) ==
    [i \in 1..Len(steps) |-> IF StepId(steps[i]) = stepId THEN Change(steps[i]) ELSE steps[i]]

selectedStepsCount == Len(AppliedSteps(cleaningSteps))

Edit(steps) ==
    /\ edits < MaxEdits
    /\ edits' = edits + 1
    /\ cleaningSteps' = steps
    /\ UNCHANGED <<data, previewData, isProcessing, runSteps, cleanedData,
                   cleanedOrigin, isAnalyzing, report, detailedIssues, scores, aiInsights, network,
                   activeTab, pendingCalls>>

toggleStep ==
    \E stepId \in StepIds :
        Edit(MapStep(cleaningSteps, stepId,
                     LAMBDA step : [step EXCEPT !.applied = ~step.applied]))

updateStepValue ==
    \E stepId \in FillStepIds, value \in UserValues :
        Edit(MapStep(cleaningSteps, stepId, LAMBDA step : [step EXCEPT !.value = value]))

\* the check boxes are rendered for the first 10 affected rows of a fill step
PreviewRows(step) ==
    {step.affectedRows[i] : i \in 1..(IF Len(step.affectedRows) < 10
                                      THEN Len(step.affectedRows) ELSE 10)}

toggleRowSelection ==
    \E i \in 1..Len(cleaningSteps) :
        /\ cleaningSteps[i].type = "fill_missing"
        /\ \E rowIndex \in PreviewRows(cleaningSteps[i]) :
              Edit(MapStep(cleaningSteps, StepId(cleaningSteps[i]),
                   LAMBDA step :
                       IF step.hasSelectedRows
                       THEN [step EXCEPT !.selectedRows =
                                IF rowIndex \in step.selectedRows
                                THEN step.selectedRows \ {rowIndex}
                                ELSE step.selectedRows \cup {rowIndex}]
                       ELSE step))

selectAllRows ==
    \E stepId \in FillStepIds :
        Edit(MapStep(cleaningSteps, stepId,
                     LAMBDA step : IF step.hasSelectedRows
                                   THEN [step EXCEPT !.selectedRows = Range(step.affectedRows)]
                                   ELSE step))

selectNoneRows ==
    \E stepId \in FillStepIds :
        Edit(MapStep(cleaningSteps, stepId,
                     LAMBDA step : IF step.hasSelectedRows
                                   THEN [step EXCEPT !.selectedRows = {}]
                                   ELSE step))

\* a reset that clears the applied flags and keeps the selected rows
resetAllStepsKeepSelection ==
    /\ selectedStepsCount > 0
    /\ edits < MaxEdits
    /\ edits' = edits + 1
    /\ cleaningSteps' = [i \in 1..Len(cleaningSteps) |->
                            [cleaningSteps[i] EXCEPT !.applied = FALSE]]
    /\ previewData' = data
    /\ UNCHANGED <<data, isProcessing, runSteps, cleanedData, cleanedOrigin,
                   isAnalyzing, report, detailedIssues, scores, aiInsights, network,
                   activeTab, pendingCalls>>

\* the Reset button is disabled while no step is applied
resetAllSteps ==
    /\ selectedStepsCount > 0
    /\ edits < MaxEdits
    /\ edits' = edits + 1
    /\ cleaningSteps' = [i \in 1..Len(cleaningSteps) |->
                            [cleaningSteps[i] EXCEPT !.applied = FALSE, !.selectedRows = {}]]
    /\ previewData' = data
    /\ UNCHANGED <<data, isProcessing, runSteps, cleanedData, cleanedOrigin,
                   isAnalyzing, report, detailedIssues, scores, aiInsights, network,
                   activeTab, pendingCalls>>

\* applyAllSelectedSteps up to its await: the rest runs later with the data
\* and the cleaningSteps of the render the call was made in
applyBegin ==
    /\ isProcessing' = TRUE
    /\ runSteps' = cleaningSteps
    /\ UNCHANGED <<data, cleaningSteps, previewData, cleanedData, cleanedOrigin,
                   edits, isAnalyzing, report, detailedIssues, scores, aiInsights, network,
                   activeTab, pendingCalls>>

\* a click on Apply, which is disabled while no step is applied or a run is pending
applyStart ==
    /\ selectedStepsCount > 0
    /\ ~isProcessing
    /\ applyBegin

\* the run starts from the dataset of the preview, the result of the last Apply
applyFinishOnPreview ==
    /\ isProcessing
    /\ LET run == CleanRun(previewData, runSteps)
       IN  /\ previewData' = Delivered(run)
           /\ cleanedData' = Delivered(run)
           /\ cleanedOrigin' = run.origin
           /\ data' = data
    /\ isProcessing' = FALSE
    /\ UNCHANGED <<cleaningSteps, runSteps, edits, isAnalyzing, report, detailedIssues,
                   scores, aiInsights, network,
                   activeTab, pendingCalls>>

\* applyAllSelectedSteps after the await
applyFinish ==
    /\ isProcessing
    /\ LET run == CleanRun(data, runSteps)
       IN  /\ previewData' = Delivered(run)
           /\ cleanedData' = Delivered(run)
           /\ cleanedOrigin' = run.origin
           /\ data' = InputAfter(run)
    /\ isProcessing' = FALSE
    /\ UNCHANGED <<cleaningSteps, runSteps, edits, isAnalyzing, report, detailedIssues,
                   scores, aiInsights, network,
                   activeTab, pendingCalls>>

SpecCleaning ==
    InitCleaning /\ [][\/ toggleStep
                       \/ updateStepValue
                       \/ toggleRowSelection
                       \/ selectAllRows
                       \/ selectNoneRows
                       \/ resetAllSteps
                       \/ applyStart
                       \/ applyFinish]_vars

-----------------------------------------------------------------------------
(* applyAllSelectedSteps as a function of a dataset and step settings *)

\* the settings the handlers can give one step
StepSettings(step) ==
    {[step EXCEPT !.applied = applied, !.selectedRows = selectedRows, !.value = value] :
        applied \in BOOLEAN,
        selectedRows \in (IF step.hasSelectedRows THEN SUBSET PreviewRows(step) ELSE {{}}),
        value \in (IF step.type = "fill_missing" THEN {step.value} \cup UserValues
                   ELSE {step.value})}

RECURSIVE AllStepSettings(_)
AllStepSettings(steps) ==
    IF steps = <<>> THEN {<<>>}
    ELSE {<<first>> \o rest : first \in StepSettings(Head(steps)),
                              rest \in AllStepSettings(Tail(steps))}

InitApply ==
    /\ data \in MixedDatasets \cup OutlierDatasets \cup RaggedDatasets
    /\ cleaningSteps \in AllStepSettings(analyzeDataAndCreateSteps(data))
    /\ previewData = data
    /\ isProcessing = FALSE
    /\ runSteps = <<>>
    /\ cleanedData = NoData
    /\ cleanedOrigin = <<>>
    /\ edits = 0
    /\ isAnalyzing = FALSE
    /\ report = NoReport
    /\ detailedIssues = <<>>
    /\ scores = <<>>
    /\ aiInsights = NoInsights
    /\ network = NoInsights
    /\ activeTab = "cleaning"
    /\ pendingCalls = [analysis |-> {}, cleaning |-> {}]

SpecApply ==
    InitApply /\ [][\/ applyBegin
                    \/ applyFinish]_vars

-----------------------------------------------------------------------------
(* QualityAnalysis: the component *)



\* one column of any kind, up to MaxWideRows rows
WideDatasets ==
    {[headers |-> <<header>>, rows |-> rows, filename |-> "d.csv"] :
        header \in {HeaderName, HeaderWords.age, HeaderWords.email, HeaderWords.phone},
        rows \in SeqsUpTo({<<c>> : c \in
                     {EmptyString, Str(<<"N","/","A">>), Str(<<"A","b">>),
                      Int100(1), Int100(200), PosInfinity, NegInfinity,
                      Str(<<"a","@","b",".","c","o">>),
                      Str(<<"5","5","5","-","1","2","3","-","4","5","6","7">>)}},
                   MaxWideRows)}

\* one column of three different rows, up to MaxDupRows rows
RepeatedRowDatasets ==
    {[headers |-> <<HeaderName>>, rows |-> rows, filename |-> "d.csv"] :
        rows \in SeqsUpTo({<<Str(<<"A","b">>)>>, <<Int100(1)>>, <<EmptyString>>}, MaxDupRows)}

\* the columns id and email with the lines 1,a@b.com and 2,not-an-email, the
\* ids as the numbers parseCSV makes of them or as the texts of the file
IdEmailDatasets ==
    {[headers |-> <<<<"i","d">>, HeaderWords.email>>,
      rows |-> <<<<ids[1], Str(<<"a","@","b",".","c","o","m">>)>>,
                 <<ids[2], Str(<<"n","o","t","-","a","n","-","e","m","a","i","l">>)>>>>,
      filename |-> "d.csv"] :
        ids \in {<<Int100(1), Int100(2)>>, <<Str(<<"1">>), Str(<<"2">>)>>}}

\* with them one long column with at most two blank cells, and two columns of
\* the same name, as parseCSV keeps them
AnalysisDatasets ==
    WideDatasets \cup RepeatedRowDatasets \cup RaggedDatasets \cup IdEmailDatasets
    \cup {[headers |-> <<HeaderName>>,
           rows |-> [i \in 1..n |-> IF i <= blanks THEN <<EmptyString>>
                                                  ELSE <<Str(<<"o","k">>)>>],
           filename |-> "d.csv"] :
             n \in (MaxScoreRows - 2)..MaxScoreRows, blanks \in 0..2}
    \cup {[headers |-> <<HeaderName, HeaderName>>, rows |-> rows, filename |-> "d.csv"] :
             rows \in SeqsUpTo({<<a, b>> : a, b \in {EmptyString, Str(<<"A"," "," ","b">>)}},
                               MaxWideRows)}

\* QualityAnalysis is mounted: its effect has called analyzeData, which waits
InitAnalysis ==
    /\ data \in AnalysisDatasets
    /\ cleaningSteps = <<>>
    /\ previewData = data
    /\ isProcessing = FALSE
    /\ runSteps = <<>>
    /\ cleanedData = NoData
    /\ cleanedOrigin = <<>>
    /\ edits = 0
    /\ isAnalyzing = TRUE
    /\ report = NoReport
    /\ detailedIssues = <<>>
    /\ scores = <<>>
    /\ aiInsights = NoInsights
    /\ network = NoInsights
    /\ activeTab = "analysis"
    /\ pendingCalls = [analysis |-> {}, cleaning |-> {}]

\* analyzeData after the await
analyzeData ==
    /\ isAnalyzing
    /\ \E halfUp \in BOOLEAN : report' = QualityReportOf(data, halfUp)
    /\ detailedIssues' = IssuesOf(data)
    /\ isAnalyzing' = FALSE
    /\ UNCHANGED <<data, cleaningSteps, previewData, isProcessing, runSteps,
                   cleanedData, cleanedOrigin, edits, scores, aiInsights, network,
                   activeTab, pendingCalls>>


SpecAnalysis == InitAnalysis /\ [][analyzeData]_vars

-----------------------------------------------------------------------------
(* The weighted sum of analyzeData as a function of the seven dimension scores *)


InitOverall ==
    /\ data = NoData
    /\ cleaningSteps = <<>>
    /\ previewData = NoData
    /\ isProcessing = FALSE
    /\ runSteps = <<>>
    /\ cleanedData = NoData
    /\ cleanedOrigin = <<>>
    /\ edits = 0
    /\ isAnalyzing = TRUE
    /\ report = NoReport
    /\ detailedIssues = <<>>
    /\ scores \in [1..7 -> {Fin(v) : v \in {0, 1, 50, 99, 100}}]
    /\ aiInsights = NoInsights
    /\ network = NoInsights
    /\ activeTab = "analysis"
    /\ pendingCalls = [analysis |-> {}, cleaning |-> {}]

\* const overallScore = Math.round(...) on the scores missing, duplicates,
\* format, range, inconsistent, patterns, sensitive data in this order
computeOverallScore ==
    /\ isAnalyzing
    /\ \E halfUp \in BOOLEAN :
          report' = [overallScore |->
                        OverallScore(scores[1], scores[2], scores[3], scores[4],
                                     scores[5], scores[6], scores[7], halfUp)]
    /\ isAnalyzing' = FALSE
    /\ UNCHANGED <<data, cleaningSteps, previewData, isProcessing, runSteps,
                   cleanedData, cleanedOrigin, edits, detailedIssues, scores, aiInsights, network,
                   activeTab, pendingCalls>>


SpecOverall == InitOverall /\ [][computeOverallScore]_vars

-----------------------------------------------------------------------------
(* AIInsights component *)

\* the values of the API key input; the empty one is the falsy one
ApiKeys == {"", "sk-or-1", "sk-or-2"}

\* what comes back from fetch and from reading the response
Responses ==
    {"rejected",                \* fetch rejects: network error
     "not_ok_with_message",     \* !response.ok, body {error: {message}}
     "not_ok_without_message",  \* !response.ok, body without error.message or not JSON
     "ok_not_json",             \* response.ok, response.json() rejects
     "ok_no_choices",           \* response.ok, body without choices or with choices []
     "ok_no_message",           \* response.ok, choices[0] without message
     "ok_no_content",           \* response.ok, choices[0].message without content
     "ok_content"}              \* response.ok, choices[0].message.content is a text

\* a text shown to the user
Message(text) == [message |-> text]

\* the errors thrown in the try block of generateAdvancedInsights, by response
Thrown ==
    [r \in Responses \ {"ok_no_content", "ok_content"} |->
        CASE r = "rejected" -> Message("Failed to fetch")
          [] r = "not_ok_with_message" -> Message("errorData.error.message")
          [] r = "not_ok_without_message" ->
                Message("Failed to generate insights. Please check your API key and try again.")
          [] r = "ok_not_json" -> Message("Unexpected token in JSON")
          [] r = "ok_no_choices" -> Message("Cannot read properties of undefined (reading '0')")
          [] r = "ok_no_message" ->
                Message("Cannot read properties of undefined (reading 'content')")]

\* data.choices[0].message.content of the responses that throw nothing
ContentOf(r) == IF r = "ok_content" THEN Message("generated insights") ELSE Undefined

\* generateBasicInsights: the sections pushed for a report of analyzeData, which
\* has no completeness and no consistency (undefined < 95 is false) and whose
\* outliers object is empty
generateBasicInsights(r) ==
    LET atLeast(n) == ~r.overallScore.nan /\ r.overallScore.v >= n
        summary ==
            [title |-> "Data Quality Summary",
             priority |-> IF atLeast(80) THEN "low"
                          ELSE IF atLeast(60) THEN "medium" ELSE "high"]
        duplicates ==
            IF r.duplicateRows > 0
            THEN <<[title |-> "Duplicate Data Impact",
                    priority |-> IF 10 * r.duplicateRows > r.totalRows
                                 THEN "high" ELSE "medium"]>>
            ELSE <<>>
        recommendations ==
            IF r.duplicateRows > 0
            THEN <<[title |-> "Priority Recommendations", priority |-> "medium"]>>
            ELSE <<>>
    IN  <<summary>> \o duplicates \o recommendations


\* AIInsights is mounted with the report: useState, and the effect has read
\* localStorage and called generateBasicInsights
InitInsights ==
    /\ data \in {d \in RepeatedRowDatasets : Len(d.rows) <= MaxWideRows}
    /\ cleaningSteps = <<>>
    /\ previewData = data
    /\ isProcessing = FALSE
    /\ runSteps = <<>>
    /\ cleanedData = NoData
    /\ cleanedOrigin = <<>>
    /\ edits = 0
    /\ isAnalyzing = FALSE
    /\ report \in {QualityReportOf(data, halfUp) : halfUp \in BOOLEAN}
    /\ detailedIssues = IssuesOf(data)
    /\ scores = <<>>
    /\ \E savedApiKey \in ApiKeys :
           /\ aiInsights = [insights |-> Null,
                            structuredInsights |-> generateBasicInsights(report),
                            isGenerating |-> FALSE,
                            error |-> Null,
                            apiKey |-> savedApiKey,
                            showApiKeyInput |-> FALSE]
           /\ network = [sent |-> 0, pending |-> <<>>, savedApiKey |-> savedApiKey]
    /\ activeTab = "insights"
    /\ pendingCalls = [analysis |-> {}, cleaning |-> {}]

appVars == <<data, cleaningSteps, previewData, isProcessing, runSteps, cleanedData,
             cleanedOrigin, edits, isAnalyzing, report, detailedIssues, scores,
             activeTab, pendingCalls>>

\* generateAdvancedInsights up to the await of fetch, with a key
Requesting(ai) == [ai EXCEPT !.isGenerating = TRUE, !.error = Null]
Fetching(net, key) == [net EXCEPT !.sent = @ + 1, !.pending = Append(@, key)]

\* the "Generate AI Strategic Analysis" button: generateAdvancedInsights up to
\* its return or to the await of fetch
generateAdvancedInsights ==
    /\ ~aiInsights.isGenerating
    /\ IF aiInsights.apiKey = ""
       THEN /\ aiInsights' = [aiInsights EXCEPT !.showApiKeyInput = TRUE]
            /\ UNCHANGED network
       ELSE /\ network.sent < MaxFetches
            /\ aiInsights' = Requesting(aiInsights)
            /\ network' = Fetching(network, aiInsights.apiKey)
    /\ UNCHANGED appVars

\* generateAdvancedInsights after the await of fetch, for the call whose fetch
\* is the i-th awaited one and gets this response
receiveResponse(i, response) ==
    /\ i \in 1..Len(network.pending)
    /\ LET rest == [k \in 1..(Len(network.pending) - 1) |->
                       IF k < i THEN network.pending[k] ELSE network.pending[k + 1]]
       IN  IF response \in DOMAIN Thrown
           THEN /\ aiInsights' = [aiInsights EXCEPT !.error = Thrown[response],
                                                    !.isGenerating = FALSE]
                /\ network' = [network EXCEPT !.pending = rest]
           ELSE /\ aiInsights' = [aiInsights EXCEPT !.insights = ContentOf(response),
                                                    !.isGenerating = FALSE]
                /\ network' = [network EXCEPT !.pending = rest,
                                              !.savedApiKey = network.pending[i]]
    /\ UNCHANGED appVars

fetchSettles ==
    \E i \in 1..MaxFetches, r \in Responses : receiveResponse(i, r)

\* the "AI Configuration" button
toggleApiKeyInput ==
    /\ aiInsights' = [aiInsights EXCEPT !.showApiKeyInput = ~@]
    /\ UNCHANGED <<appVars, network>>

\* the API key input of the configuration panel
setApiKey ==
    /\ aiInsights.showApiKeyInput
    /\ \E key \in ApiKeys : aiInsights' = [aiInsights EXCEPT !.apiKey = key]
    /\ UNCHANGED <<appVars, network>>

\* the "Save & Generate" button of the configuration panel
saveApiKey ==
    /\ aiInsights.showApiKeyInput
    /\ aiInsights.apiKey # ""
    /\ network.sent < MaxFetches
    /\ aiInsights' = [Requesting(aiInsights) EXCEPT !.showApiKeyInput = FALSE]
    /\ network' = [Fetching(network, aiInsights.apiKey)
                       EXCEPT !.savedApiKey = aiInsights.apiKey]
    /\ UNCHANGED appVars

SpecInsights ==
    InitInsights /\ [][\/ generateAdvancedInsights
                       \/ fetchSettles
                       \/ toggleApiKeyInput
                       \/ setApiKey
                       \/ saveApiKey]_vars

-----------------------------------------------------------------------------
(* DataCleaning: the steps built when the component is mounted *)


\* the column 1, 2, ..., 9, 100
TenValues ==
    [headers |-> <<HeaderWords.age>>,
     rows |-> [i \in 1..10 |-> <<IF i = 10 THEN Int100(100) ELSE Int100(i)>>],
     filename |-> "d.csv"]

\* one column of up to MaxBlanks blank cells followed by MinNumbers to
\* MaxNumbers numbers, and the column of ten values
QuartileDatasets ==
    {[headers |-> <<HeaderWords.age>>,
      rows |-> [i \in 1..blanks |-> <<EmptyString>>] \o [i \in 1..Len(numbers) |-> <<numbers[i]>>],
      filename |-> "d.csv"] :
        blanks \in 0..MaxBlanks,
        numbers \in UNION {[1..n -> {Int100(1), Int100(2), Int100(50)}] :
                              n \in MinNumbers..MaxNumbers}}
    \cup {TenValues}

\* App holds the uploaded data; DataCleaning is not mounted yet
InitMount ==
    /\ data \in QuartileDatasets
    /\ cleaningSteps = <<>>
    /\ previewData = NoData
    /\ isProcessing = FALSE
    /\ runSteps = <<>>
    /\ cleanedData = NoData
    /\ cleanedOrigin = <<>>
    /\ edits = 0
    /\ isAnalyzing = FALSE
    /\ report = NoReport
    /\ detailedIssues = <<>>
    /\ scores = <<>>
    /\ aiInsights = NoInsights
    /\ network = NoInsights
    /\ activeTab = "cleaning"
    /\ pendingCalls = [analysis |-> {}, cleaning |-> {}]

\* DataCleaning is mounted: useState(data) for previewData, and the effect
\* calls analyzeDataAndCreateSteps, which ends with setCleaningSteps(steps)
mountDataCleaning ==
    /\ previewData = NoData
    /\ previewData' = data
    /\ cleaningSteps' = analyzeDataAndCreateSteps(data)
    /\ UNCHANGED <<data, isProcessing, runSteps, cleanedData, cleanedOrigin, edits,
                   isAnalyzing, report, detailedIssues, scores, aiInsights, network,
                   activeTab, pendingCalls>>


SpecMount == InitMount /\ [][mountDataCleaning]_vars

-----------------------------------------------------------------------------
(* App: the tabs and the callbacks given to the components *)

\* the disabled flag of a tab button
Disabled(id) ==
    CASE id \in {"preview", "analysis", "cleaning"} -> data = NoData
      [] id = "insights" -> report = NoReport
      [] id = "export" -> cleanedData = NoData
      [] OTHER -> FALSE

\* the application is loaded: the upload tab is shown, nothing is uploaded
InitApp ==
    /\ data = NoData
    /\ cleaningSteps = <<>>
    /\ previewData = NoData
    /\ isProcessing = FALSE
    /\ runSteps = <<>>
    /\ cleanedData = NoData
    /\ cleanedOrigin = <<>>
    /\ edits = 0
    /\ isAnalyzing = FALSE
    /\ report = NoReport
    /\ detailedIssues = <<>>
    /\ scores = <<>>
    /\ aiInsights = NoInsights
    /\ network = NoInsights
    /\ activeTab = "upload"
    /\ pendingCalls = [analysis |-> {}, cleaning |-> {}]

\* a tab button whose click handler sets the tab without the test of disabled
setActiveTabAlways ==
    \E id \in {"upload", "preview", "analysis", "insights", "cleaning", "export", "docs"} :
        /\ activeTab' = id
        /\ UNCHANGED <<data, cleaningSteps, previewData, isProcessing, runSteps, cleanedData,
                       cleanedOrigin, edits, isAnalyzing, report, detailedIssues, scores,
                       aiInsights, network, pendingCalls>>

\* a click on a tab button; showing the analysis tab mounts QualityAnalysis,
\* whose effect calls analyzeData with the data of that render
setActiveTab ==
    \E id \in {"upload", "preview", "analysis", "insights", "cleaning", "export", "docs"} :
        /\ activeTab' = IF Disabled(id) THEN activeTab ELSE id
        /\ pendingCalls' =
               IF ~Disabled(id) /\ id = "analysis" /\ activeTab # "analysis"
                  /\ Cardinality(pendingCalls.analysis \cup {data}) <= MaxPendingCalls
               THEN [pendingCalls EXCEPT !.analysis = @ \cup {data}]
               ELSE pendingCalls
        /\ UNCHANGED <<data, cleaningSteps, previewData, isProcessing, runSteps, cleanedData,
                       cleanedOrigin, edits, isAnalyzing, report, detailedIssues, scores,
                       aiInsights, network>>

\* FileUpload has read and parsed a file chosen while the upload tab was shown;
\* the file may be read after the tab was left. The files hold one line, the
\* name missing, filled or "N/A"
handleDataUpload ==
    /\ \E a \in {EmptyString, Str(<<"A","b">>), Str(<<"N","/","A">>)} :
           data' = [headers |-> <<HeaderName, HeaderWords.age>>,
                    rows |-> <<<<a, Int100(1)>>>>, filename |-> "d.csv"]
    /\ activeTab' = "preview"
    /\ UNCHANGED <<cleaningSteps, previewData, isProcessing, runSteps, cleanedData,
                   cleanedOrigin, edits, isAnalyzing, report, detailedIssues, scores,
                   aiInsights, network, pendingCalls>>

\* a call of analyzeData goes on after its await and gives its report to App
handleQualityReport ==
    \E d \in pendingCalls.analysis, halfUp \in BOOLEAN :
        /\ report' = QualityReportOf(d, halfUp)
        /\ pendingCalls' = [pendingCalls EXCEPT !.analysis = @ \ {d}]
        /\ UNCHANGED <<data, cleaningSteps, previewData, isProcessing, runSteps, cleanedData,
                       cleanedOrigin, edits, isAnalyzing, detailedIssues, scores,
                       aiInsights, network, activeTab>>

\* the Apply button of DataCleaning, shown in the cleaning tab, after the user
\* has switched on every step found: applyAllSelectedSteps up to its await
applyAllSelectedSteps ==
    /\ activeTab = "cleaning"
    /\ LET built == analyzeDataAndCreateSteps(data)
           steps == [i \in DOMAIN built |-> [built[i] EXCEPT !.applied = TRUE]]
       IN  /\ steps # <<>>
           /\ Cardinality(pendingCalls.cleaning \cup {<<data, steps>>}) <= MaxPendingCalls
           /\ pendingCalls' = [pendingCalls EXCEPT !.cleaning = @ \cup {<<data, steps>>}]
    /\ UNCHANGED <<data, cleaningSteps, previewData, isProcessing, runSteps, cleanedData,
                   cleanedOrigin, edits, isAnalyzing, report, detailedIssues, scores,
                   aiInsights, network, activeTab>>

\* a call of applyAllSelectedSteps goes on after its await and gives the
\* cleaned dataset to App
handleDataCleaning ==
    \E call \in pendingCalls.cleaning :
        /\ cleanedData' = Delivered(CleanRun(call[1], call[2]))
        /\ pendingCalls' = [pendingCalls EXCEPT !.cleaning = @ \ {call}]
        /\ UNCHANGED <<data, cleaningSteps, previewData, isProcessing, runSteps,
                       cleanedOrigin, edits, isAnalyzing, report, detailedIssues, scores,
                       aiInsights, network, activeTab>>

SpecApp ==
    InitApp /\ [][\/ setActiveTab
                  \/ handleDataUpload
                  \/ handleQualityReport
                  \/ applyAllSelectedSteps
                  \/ handleDataCleaning]_vars

-----------------------------------------------------------------------------
(* Properties *)

\* the empty-markers of the data model: blank, null, undefined and the four tokens
EmptyMarkerCells ==
    {EmptyString, Null, Undefined,
     Str(<<"n","u","l","l">>), Str(<<"N","U","L","L">>),
     Str(<<"N","/","A">>), Str(<<"n","/","a">>)}

\* a run of applyAllSelectedSteps has delivered cleanedData and no other run is pending
RunDone == cleanedData # NoData /\ ~isProcessing

\* the steps of the last run that were applied and have the given type
AppliedOfType(type) == Filter(runSteps, LAMBDA step : step.applied /\ step.type = type)

(* C1: after a run with an applied fill_missing step whose selectedRows is a   *)
(* non-empty set S, every missing cell of the step's column in an input row    *)
(* whose index is not in S is still missing in the output, whatever other      *)
(* steps were applied in the same run.                                         *)
C1_FillOnlySelectedRows ==
    RunDone =>
        \A i \in 1..Len(runSteps) :
            LET step == runSteps[i]
                colIndex == IndexOf(data.headers, step.column)
            IN  (step.applied /\ step.type = "fill_missing" /\ step.selectedRows # {}) =>
                    \A k \in 1..Len(cleanedData.rows) :
                        (/\ cleanedOrigin[k] \notin step.selectedRows
                         /\ At(data.rows[cleanedOrigin[k] + 1], colIndex) \in EmptyMarkerCells)
                        => At(cleanedData.rows[k], colIndex) \in EmptyMarkerCells

\* the seven dimension scores of a report followed by its overall score
ScoresOf(r) ==
    <<r.missingValuesScore, r.duplicatesScore, r.invalidFormatScore, r.valueRangeScore,
      r.inconsistentValuesScore, r.unusualPatternsScore, r.sensitiveDataScore,
      r.overallScore>>

\* analyzeData has delivered its report
ReportDone == report # NoReport /\ ~isAnalyzing

(* C2: for every dataset, each of the seven dimension scores and the overall   *)
(* score of the report is an integer in 0..100.                                *)
C2_ScoresInRange ==
    ReportDone =>
        \A i \in 1..8 : ~ScoresOf(report)[i].nan /\ ScoresOf(report)[i].v \in 0..100

(* C3: for a dataset with zero rows or zero columns analyzeData reports no     *)
(* issue, and every dimension score and the overall score are 100.             *)
C3_EmptyDatasetIsClean ==
    (ReportDone /\ (Len(data.rows) = 0 \/ Len(data.headers) = 0)) =>
        /\ detailedIssues = <<>>
        /\ \A i \in 1..8 : ScoresOf(report)[i] = Fin(100)


\* the number of cells of the dataset and the number of them that are empty-markers
\* no header name occurs twice
HeadersUnique(d) ==
    \A i, j \in 1..Len(d.headers) : d.headers[i] = d.headers[j] => i = j

TotalCellsOf(d) == Len(d.rows) * Len(d.headers)
EmptyMarkerCountOf(d) ==
    Cardinality({rc \in (1..Len(d.rows)) \X (1..Len(d.headers)) :
                    At(d.rows[rc[1]], rc[2] - 1) \in EmptyMarkerCells})

(* C4 as stated: for a dataset with at least one cell, missingValuesScore is   *)
(* 100 if and only if no cell is an empty-marker.                              *)
C4_MissingScore100IffNoEmptyMarker ==
    (ReportDone /\ TotalCellsOf(data) > 0) =>
        (report.missingValuesScore = Fin(100) <=> EmptyMarkerCountOf(data) = 0)

(* C4 amended: for a dataset with at least one cell and no header name that   *)
(* occurs twice, missingValuesScore is the integer nearest to the percentage   *)
(* of cells that are not empty-markers (halves go up); it is 100 when no cell  *)
(* is an empty-marker, and it is 100 if and only if at most one cell in 200 is *)
(* an empty-marker.                                                            *)
C4_MissingScoreIsRoundedPercentage ==
    (ReportDone /\ TotalCellsOf(data) > 0 /\ HeadersUnique(data)) =>
        LET total == TotalCellsOf(data)
            present == total - EmptyMarkerCountOf(data)
            score == report.missingValuesScore
        IN  /\ ~score.nan
            /\ 2 * total * score.v <= 200 * present + total
            /\ 200 * present + total < 2 * total * (score.v + 1)
            /\ EmptyMarkerCountOf(data) = 0 => score.v = 100
            /\ score.v = 100 <=> 200 * EmptyMarkerCountOf(data) <= total

\* a report whose missingValuesScore is 100 although one cell is an empty-marker
C4_RoundsUpTo100 ==
    /\ ReportDone
    /\ EmptyMarkerCountOf(data) = 1
    /\ report.missingValuesScore = Fin(100)


\* the duplicate issues reported for the row with the given 0-based index
DuplicateIssuesAt(rowIndex) ==
    Filter(detailedIssues, LAMBDA issue : issue.type = "duplicate" /\ issue.rowIndex = rowIndex)

\* the 0-based indices of the earlier rows equal to the row cell by cell
EarlierEqualRows(d, rowIndex) ==
    {j \in 0..(rowIndex - 1) : d.rows[j + 1] = d.rows[rowIndex + 1]}

(* C5: the Duplicates analysis flags a row if and only if an earlier row is    *)
(* equal to it cell by cell; a flagged row has exactly one issue, which names  *)
(* the index of the first occurrence; a first occurrence has no issue; and     *)
(* duplicatesScore = round((totalRows - flaggedRows) / totalRows * 100).       *)
C5_DuplicatesAreEqualRows ==
    ReportDone =>
        /\ \A rowIndex \in 0..(Len(data.rows) - 1) :
              IF EarlierEqualRows(data, rowIndex) = {}
              THEN DuplicateIssuesAt(rowIndex) = <<>>
              ELSE /\ Len(DuplicateIssuesAt(rowIndex)) = 1
                   /\ DuplicateIssuesAt(rowIndex)[1].original \in EarlierEqualRows(data, rowIndex)
                   /\ \A j \in EarlierEqualRows(data, rowIndex) :
                         DuplicateIssuesAt(rowIndex)[1].original <= j
        /\ LET totalRows == Len(data.rows)
               flagged == Cardinality({i \in 0..(totalRows - 1) :
                                          EarlierEqualRows(data, i) # {}})
           IN  totalRows > 0 =>
                   /\ ~report.duplicatesScore.nan
                   /\ 2 * totalRows * report.duplicatesScore.v
                          <= 200 * (totalRows - flagged) + totalRows
                   /\ 200 * (totalRows - flagged) + totalRows
                          < 2 * totalRows * (report.duplicatesScore.v + 1)


\* the last run applied the remove_duplicates step and nothing else
OnlyDuplicatesRemoved ==
    /\ RunDone
    /\ AppliedOfType("remove_duplicates") # <<>>
    /\ \A i \in 1..Len(runSteps) :
          runSteps[i].applied => runSteps[i].type = "remove_duplicates"

(* C6: remove-duplicates is idempotent: applied to the output of a             *)
(* remove_duplicates run it removes no further row, and step construction on   *)
(* that output builds no remove_duplicates step.                               *)
C6_RemoveDuplicatesIdempotent ==
    OnlyDuplicatesRemoved =>
        LET rebuilt == analyzeDataAndCreateSteps(cleanedData)
        IN  /\ RemoveDuplicates(Running(cleanedData)).rows = cleanedData.rows
            /\ \A i \in 1..Len(rebuilt) : rebuilt[i].type # "remove_duplicates"

\* a remove_duplicates run that dropped a row
C6_DuplicatesWereRemoved ==
    OnlyDuplicatesRemoved /\ Len(cleanedData.rows) < Len(data.rows)


\* the last run was made while no step had applied = true
NothingApplied ==
    RunDone /\ \A i \in 1..Len(runSteps) : ~runSteps[i].applied

(* C7: applying the steps built for a dataset while no step is applied returns *)
(* a dataset equal to it: same headers, same rows in the same order, same      *)
(* cell values.                                                                *)
C7_NothingAppliedIsIdentity ==
    NothingApplied =>
        /\ cleanedData.headers = data.headers
        /\ cleanedData.rows = data.rows
        /\ cleanedOrigin = [i \in 1..Len(data.rows) |-> i - 1]

\* a run over steps that would change the dataset, none of them applied
C7_StepsBuiltNoneApplied ==
    /\ NothingApplied
    /\ \E i \in 1..Len(runSteps) : runSteps[i].type = "remove_duplicates"
    /\ \E i \in 1..Len(runSteps) : runSteps[i].type = "fill_missing"


\* the place of a step type in the fixed order of the transformations
PhaseOf(type) ==
    CASE type = "remove_duplicates" -> 1
      [] type = "fill_missing" -> 2
      [] type = "remove_outliers" -> 3
      [] type = "standardize" -> 4

\* the dataset after the applied steps of one type have run on acc, one after the other
AfterPhase(acc, type) == RunSteps(acc, AppliedOfType(type))

KthSmallest(numbers, k) ==
    CHOOSE v \in Range(numbers) :
        /\ Cardinality({i \in 1..Len(numbers) : numbers[i] < v}) <= k
        /\ k < Cardinality({i \in 1..Len(numbers) : numbers[i] <= v})

\* the value lies within [q1 - 1.5 * iqr, q3 + 1.5 * iqr] for the quartiles of numbers
InsideIQRBounds(value, numbers) ==
    LET q1 == KthSmallest(numbers, Len(numbers) \div 4)
        q3 == KthSmallest(numbers, (3 * Len(numbers)) \div 4)
    IN  /\ 2 * value >= 2 * q1 - 3 * (q3 - q1)
        /\ 2 * value <= 2 * q3 + 3 * (q3 - q1)

\* the running dataset the outlier removal of the last run started from
BeforeOutliers ==
    AfterPhase(AfterPhase(Running(data), "remove_duplicates"), "fill_missing")

\* the last run applied exactly one remove_outliers step and no standardize step
OneOutlierRemoval ==
    /\ RunDone
    /\ Len(AppliedOfType("remove_outliers")) = 1
    /\ AppliedOfType("standardize") = <<>>

(* C9: an applied remove_outliers step computes the IQR bounds from the values *)
(* its column holds after the earlier applied steps of the run, and drops      *)
(* exactly the rows whose numeric value in the column lies outside them.       *)
C9_OutlierBoundsFromCurrentColumn ==
    OneOutlierRemoval =>
        LET step == AppliedOfType("remove_outliers")[1]
            colIndex == IndexOf(data.headers, step.column)
            before == BeforeOutliers
            cells == Column(before.rows, colIndex)
            numericCells == Filter(cells, IsNumber)
            numbers == [i \in 1..Len(numericCells) |-> numericCells[i].n]
            kept == SelectSeq([i \in 1..Len(cells) |-> i],
                              LAMBDA i : ~IsNumber(cells[i])
                                         \/ InsideIQRBounds(cells[i].n, numbers))
        IN  /\ cleanedData.rows = [k \in 1..Len(kept) |-> before.rows[kept[k]]]
            /\ cleanedOrigin = [k \in 1..Len(kept) |-> before.origin[kept[k]]]

\* an outlier removal after which a row stays that was an outlier in the
\* uploaded dataset: the bounds of the column as it is now let it pass
C9_BoundsMovedByEarlierSteps ==
    /\ OneOutlierRemoval
    /\ Len(BeforeOutliers.rows) < Len(data.rows)
    /\ \E k \in 1..Len(cleanedOrigin) :
          cleanedOrigin[k] \in Range(AppliedOfType("remove_outliers")[1].affectedRows)

\* the 0-based indices of the columns in which the Missing Values analysis
\* reports at least one missing cell
ColumnsReportedMissing(d) ==
    {c \in 0..(Len(d.headers) - 1) : ForEachRow(d, c, "", MissingIssuesOfCell) # <<>>}

\* the last run applied fill_missing steps only
OnlyFilled ==
    /\ RunDone
    /\ \A i \in 1..Len(runSteps) : runSteps[i].applied => runSteps[i].type = "fill_missing"

(* C10: a fill_missing step is built for every column in which the Missing     *)
(* Values analysis reports a missing cell, and applying a fill_missing step    *)
(* with selectedRows empty puts the step's fill value in every empty-marker    *)
(* cell of its column.                                                         *)
C10_FillMirrorsMissingAnalysis ==
    /\ \A c \in ColumnsReportedMissing(data) :
          \E i \in 1..Len(cleaningSteps) :
              /\ cleaningSteps[i].type = "fill_missing"
              /\ cleaningSteps[i].column = data.headers[c + 1]
    /\ OnlyFilled =>
          \A i \in 1..Len(runSteps) :
              LET step == runSteps[i]
                  colIndex == IndexOf(data.headers, step.column)
              IN  (step.applied /\ step.selectedRows = {}) =>
                      \A k \in 1..Len(data.rows) :
                          At(data.rows[k], colIndex) \in EmptyMarkerCells
                              => At(cleanedData.rows[k], colIndex) = step.value


\* the issues reported for the cell of the given column and 0-based row
IssuesAtCell(header, rowIndex) ==
    Filter(detailedIssues, LAMBDA issue : issue.column = header /\ issue.rowIndex = rowIndex)

(* C11: a cell that is an empty-marker (blank, null, undefined, or one of the  *)
(* tokens "null", "NULL", "N/A", "n/a") produces exactly one issue, of the     *)
(* Missing Values dimension, and no issue of any other per-cell dimension.     *)
C11_EmptyMarkerOnlyMissing ==
    ReportDone =>
        \A r \in 1..Len(data.rows) : \A c \in 1..Len(data.headers) :
            At(data.rows[r], c - 1) \in EmptyMarkerCells =>
                /\ Len(IssuesAtCell(data.headers[c], r - 1)) = 1
                /\ IssuesAtCell(data.headers[c], r - 1)[1].type = "missing"


\* the weighted sum has been computed from the scores
OverallDone == scores # <<>> /\ ~isAnalyzing

\* 100 times the weighted sum of the scores, weights 20, 15, 15, 15, 10, 10, 15 percent
WeightedSum100 ==
    20 * scores[1].v + 15 * scores[2].v + 15 * scores[3].v + 15 * scores[4].v
    + 10 * scores[5].v + 10 * scores[6].v + 15 * scores[7].v

(* C12: overallScore is the weighted sum of the seven sub-scores (weights 20,  *)
(* 15, 15, 15, 10, 10, 15 percent) rounded to a nearest integer; it is 100     *)
(* when all sub-scores are 100, 0 when all are 0, and never below the smallest *)
(* or above the largest sub-score.                                             *)
C12_OverallIsWeightedSum ==
    OverallDone =>
        LET overall == report.overallScore
        IN  /\ ~overall.nan
            /\ 200 * overall.v - 100 <= 2 * WeightedSum100
            /\ 2 * WeightedSum100 <= 200 * overall.v + 100
            /\ (\A k \in 1..7 : scores[k].v = 100) => overall.v = 100
            /\ (\A k \in 1..7 : scores[k].v = 0) => overall.v = 0
            /\ \E k \in 1..7 : scores[k].v <= overall.v
            /\ \E k \in 1..7 : scores[k].v >= overall.v

\* an overall score computed from sub-scores that differ, whose weighted sum
\* lies exactly halfway between two integers
C12_MixedScoresAtHalf ==
    /\ OverallDone
    /\ WeightedSum100 % 100 = 50
    /\ \E j, k \in 1..7 : scores[j].v < report.overallScore.v /\ report.overallScore.v < scores[k].v


\* the datasets that differ from d in one cell, which holds a value in d and an
\* empty marker in them: same rows and columns, one more missing cell
WithOneMoreMissing(d) ==
    {[d EXCEPT !.rows[rc[1]][rc[2]] = e] :
        rc \in {x \in (1..Len(d.rows)) \X (1..Len(d.headers)) :
                   At(d.rows[x[1]], x[2] - 1) \notin EmptyMarkerCells},
        e \in {EmptyString, Str(<<"N","/","A">>)}}

RaggedRows(d) == {r \in 1..Len(d.rows) : Len(d.rows[r]) # Len(d.headers)}

(* C14: when a row has a number of cells different from the number of headers, *)
(* the analysis stops with an error: it produces no report, and no cell that   *)
(* is absent from a row is reported as a missing value.                        *)
C14_RaggedRowsGiveNoReport ==
    RaggedRows(data) # {} =>
        /\ report = NoReport
        /\ \A k \in 1..Len(detailedIssues) :
               ~(/\ detailedIssues[k].type = "missing"
                 /\ detailedIssues[k].rowIndex + 1 \in RaggedRows(data)
                 /\ detailedIssues[k].value = Undefined)

\* the responses the request fails with: network error, non-2xx status, or a
\* response without choices[0].message.content
FailedResponses ==
    {"rejected", "not_ok_with_message", "not_ok_without_message",
     "ok_no_choices", "ok_no_message", "ok_no_content"}

\* what the end of a failed call is to be: no new fetch, an error, not
\* generating, the report and the structured insights as before
EndsAsFailed ==
    /\ network'.sent = network.sent
    /\ Len(network'.pending) = Len(network.pending) - 1
    /\ aiInsights'.error # Null
    /\ ~aiInsights'.isGenerating
    /\ report' = report
    /\ aiInsights'.structuredInsights = aiInsights.structuredInsights

(* C15: when the AI-insight request fails (network error, non-2xx status, or a *)
(* response without choices[0].message.content), generateAdvancedInsights      *)
(* makes no second attempt and ends with error non-null and isGenerating       *)
(* false, the report and the structured insights unchanged.                    *)
C15_FailedRequestEndsWithError ==
    [][\A i \in 1..MaxFetches, r \in FailedResponses :
           receiveResponse(i, r) => EndsAsFailed]_vars

\* whether the dataset handed to onDataCleaned is another object than data
IsNewObject(d, steps) == CleanRun(d, steps).fresh

(* C16: cleaning never mutates its input: when applyAllSelectedSteps ends,     *)
(* whatever steps were applied, the dataset object it was given has the same   *)
(* headers, rows, cell values and filename as before, and the result is handed *)
(* over as another object.                                                     *)
C16_InputNotMutated ==
    [][isProcessing /\ ~isProcessing' =>
          /\ data' = data
          /\ IsNewObject(data, runSteps)
          /\ cleanedData' # NoData]_vars

\* a run with a filling step and a removing step applied has ended; its result
\* differs from the input in its rows and in its filename
C16_CleanedDiffersFromInput ==
    /\ RunDone
    /\ AppliedOfType("fill_missing") # <<>>
    /\ AppliedOfType("remove_duplicates") # <<>>
    /\ Len(cleanedData.rows) < Len(data.rows)
    /\ \E i \in 1..Len(cleanedData.rows) :
           cleanedData.rows[i] # data.rows[cleanedOrigin[i] + 1]
    /\ cleanedData.filename # data.filename

\* the steps of the mounted component have been built
StepsBuilt == previewData # NoData /\ cleanedData = NoData /\ ~isProcessing

\* the numbers of the only column of data, in row order
NumbersOfColumn ==
    LET numeric == Filter(Column(data.rows, 0), IsNumber)
    IN  [i \in 1..Len(numeric) |-> numeric[i].n]

\* the 0-based rows the remove_outliers steps flag
FlaggedRows ==
    UNION {Range(cleaningSteps[k].affectedRows) :
              k \in {j \in 1..Len(cleaningSteps) : cleaningSteps[j].type = "remove_outliers"}}

\* the 0-based rows holding a number outside the IQR bounds of the column
RowsOutsideIQRBounds ==
    {r \in 0..(Len(data.rows) - 1) :
        /\ IsNumber(At(data.rows[r + 1], 0))
        /\ ~InsideIQRBounds(At(data.rows[r + 1], 0).n, NumbersOfColumn)}

NonEmptyOfColumn(d, colIndex) ==
    Filter(Column(d.rows, colIndex), LAMBDA c : c \notin EmptyMarkerCells)
ParsedOfColumn(d, colIndex) ==
    Filter(NonEmptyOfColumn(d, colIndex), LAMBDA c : IsNumber(c) \/ ~IsNaNNumber(c))

\* the type the header rules give: email, then phone or mobile, then date or dob
TypeByHeader(header) ==
    IF HeaderIncludes(header, <<"e","m","a","i","l">>) THEN "email"
    ELSE IF \/ HeaderIncludes(header, <<"p","h","o","n","e">>)
            \/ HeaderIncludes(header, <<"m","o","b","i","l","e">>) THEN "phone"
    ELSE IF \/ HeaderIncludes(header, <<"d","a","t","e">>)
            \/ HeaderIncludes(header, <<"d","o","b">>) THEN "date"
    ELSE "text"

(* C18: a column is typed numeric if and only if at least 70% of its non-empty *)
(* values parse as a number, and otherwise gets the type of the first header   *)
(* rule that matches (email, phone or mobile, date or dob, else text); empty   *)
(* cells do not influence the type.                                            *)
C18_NumericIffSeventyPercentOfNonEmpty ==
    ReportDone =>
        \A c \in 1..Len(data.headers) :
            NonEmptyOfColumn(data, c - 1) # <<>> =>
                report.dataTypes[data.headers[c]] =
                    IF 10 * Len(ParsedOfColumn(data, c - 1))
                           >= 7 * Len(NonEmptyOfColumn(data, c - 1))
                    THEN "numeric"
                    ELSE TypeByHeader(data.headers[c])

\* none of the rules of generateRecommendations fires on the report and issues
NoRuleFired ==
    /\ ~report.overallScore.nan
    /\ report.overallScore.v >= 80
    /\ \A k \in 1..Len(detailedIssues) :
           /\ detailedIssues[k].severity \notin {"critical", "high"}
           /\ detailedIssues[k].type \notin
                  {"sensitive_data", "duplicate", "invalid_format", "value_range",
                   "unusual_pattern"}
    /\ 10 * Cardinality({k \in 1..Len(detailedIssues) : detailedIssues[k].type = "missing"})
           <= Len(data.rows)

(* C19: the recommendations are never empty; the "excellent quality" message   *)
(* is among them if and only if no other rule fired (score >= 80, no critical  *)
(* issue, no PII issue, no high-severity issue, missing issues at most 10% of  *)
(* the rows, no duplicate, format, range or unusual-pattern issue), and then   *)
(* it is the only recommendation.                                              *)
C19_ExcellentIffNoRuleFired ==
    ReportDone =>
        /\ report.recommendations # <<>>
        /\ ("excellent" \in Range(report.recommendations)) <=> NoRuleFired
        /\ "excellent" \in Range(report.recommendations) =>
               report.recommendations = <<"excellent">>

\* the number of issues of a type reported for one cell
IssueCountAt(header, rowIndex, type) ==
    Cardinality({k \in 1..Len(detailedIssues) :
                    /\ detailedIssues[k].column = header
                    /\ detailedIssues[k].rowIndex = rowIndex
                    /\ detailedIssues[k].type = type})

\* the 0-based rows with an issue of a type, whatever the column
RowsWithIssue(type) ==
    {detailedIssues[k].rowIndex :
        k \in {j \in 1..Len(detailedIssues) : detailedIssues[j].type = type}}

(* C20: in a column typed email a non-empty cell gets exactly one Invalid       *)
(* Format issue if it does not match the email pattern and none if it does;    *)
(* whatever the column type, a non-empty cell that matches the email pattern   *)
(* gets exactly one PII issue. For the columns id and email with the rows      *)
(* 1, a@b.com and 2, not-an-email there is exactly one Invalid Format issue    *)
(* (row 1, column email) and exactly one PII issue (row 0).                    *)
C20_EmailFormatAndPII ==
    ReportDone =>
        /\ \A c \in 1..Len(data.headers), r \in 1..Len(data.rows) :
               LET header == data.headers[c]
                   val == At(data.rows[r], c - 1)
                   matches == EmailPattern(ToStr(val))
               IN  val \notin EmptyMarkerCells =>
                       /\ report.dataTypes[header] = "email" =>
                              IssueCountAt(header, r - 1, "invalid_format")
                                  = IF matches THEN 0 ELSE 1
                       /\ matches => IssueCountAt(header, r - 1, "sensitive_data") = 1
        /\ data \in IdEmailDatasets =>
               /\ CountType(detailedIssues, "invalid_format") = 1
               /\ IssueCountAt(HeaderWords.email, 1, "invalid_format") = 1
               /\ CountType(detailedIssues, "sensitive_data") = 1
               /\ RowsWithIssue("sensitive_data") = {0}

\* the analysis of an email column holding an address and a cell that is none
C20_EmailColumnWithBothCells ==
    /\ ReportDone
    /\ \E c \in 1..Len(data.headers) :
           /\ report.dataTypes[data.headers[c]] = "email"
           /\ \E r1, r2 \in 1..Len(data.rows) :
                  /\ EmailPattern(ToStr(At(data.rows[r1], c - 1)))
                  /\ At(data.rows[r2], c - 1) \notin EmptyMarkerCells
                  /\ ~EmailPattern(ToStr(At(data.rows[r2], c - 1)))
                  /\ IssueCountAt(data.headers[c], r2 - 1, "invalid_format") = 1
                  /\ IssueCountAt(data.headers[c], r1 - 1, "sensitive_data") = 1

\* the 0-based rows of a column for which analyzeData reported a formatting
\* inconsistency (severity low)
RowsFlaggedInconsistent(header) ==
    {detailedIssues[k].rowIndex :
        k \in {j \in 1..Len(detailedIssues) :
                  /\ detailedIssues[j].type = "inconsistent"
                  /\ detailedIssues[j].severity = "low"
                  /\ detailedIssues[j].column = header}}

\* the affectedRows of the standardize step built for a column, none without a step
RowsOfStandardizeStep(d, header) ==
    UNION {Range(step.affectedRows) : step \in Range(StandardizeStepOf(d, header))}

(* C21: in a text-typed column a non-empty string cell is flagged by the       *)
(* Inconsistent Values analysis (severity low) if and only if trimming and     *)
(* lowercasing changes it or it contains a double space, and the cells flagged *)
(* in the column are the affectedRows of the column's standardize step.        *)
C21_FlaggedIffStandardizable ==
    ReportDone =>
        \A c \in 1..Len(data.headers) :
            LET header == data.headers[c]
            IN  report.dataTypes[header] = "text" =>
                    /\ \A r \in 1..Len(data.rows) :
                           LET val == At(data.rows[r], c - 1)
                           IN  (IsString(val) /\ val # EmptyString) =>
                                   ((r - 1) \in RowsFlaggedInconsistent(header)
                                        <=> NeedsStandardizing(val))
                    /\ RowsFlaggedInconsistent(header) = RowsOfStandardizeStep(data, header)

\* the length of the cell's text without spaces, hyphens and parentheses is not in 10..15
PhoneLengthOutside(val) ==
    Len(CleanPhone(ToStr(val))) < 10 \/ Len(CleanPhone(ToStr(val))) > 15

(* C22 as stated: in every column whose header contains "phone" each non-empty *)
(* cell whose cleaned value has a length outside 10..15 produces one Value     *)
(* Range issue and one Invalid Format issue, whatever the other values of the  *)
(* column are.                                                                 *)
C22_PhoneLengthCountedTwice ==
    ReportDone =>
        \A c \in 1..Len(data.headers), r \in 1..Len(data.rows) :
            LET header == data.headers[c]
                val == At(data.rows[r], c - 1)
            IN  (HeaderIncludes(header, HeaderWords.phone) /\ ~IsBlank(val)
                 /\ PhoneLengthOutside(val)) =>
                    /\ IssueCountAt(header, r - 1, "value_range") = 1
                    /\ IssueCountAt(header, r - 1, "invalid_format") = 1

(* C22: in every column whose header contains "phone" each non-empty cell      *)
(* whose cleaned value has a length outside 10..15 produces one Value Range    *)
(* issue, and when the column is typed phone it produces one Invalid Format    *)
(* issue as well.                                                              *)
C22_PhoneLengthCountedTwiceInPhoneColumn ==
    ReportDone =>
        \A c \in 1..Len(data.headers), r \in 1..Len(data.rows) :
            LET header == data.headers[c]
                val == At(data.rows[r], c - 1)
            IN  (HeaderIncludes(header, HeaderWords.phone) /\ ~IsBlank(val)
                 /\ PhoneLengthOutside(val)) =>
                    /\ IssueCountAt(header, r - 1, "value_range") = 1
                    /\ report.dataTypes[header] = "phone" =>
                           IssueCountAt(header, r - 1, "invalid_format") = 1

\* a phone-typed column in which a cell that matches the phone pattern is too
\* short and has both issues, next to a cell of a good length that has neither
C22_ShortPhoneNextToGoodPhone ==
    /\ ReportDone
    /\ \E c \in 1..Len(data.headers) :
           LET header == data.headers[c]
           IN  /\ HeaderIncludes(header, HeaderWords.phone)
               /\ report.dataTypes[header] = "phone"
               /\ \E r1, r2 \in 1..Len(data.rows) :
                      /\ PhonePattern(CleanPhone(ToStr(At(data.rows[r1], c - 1))))
                      /\ PhoneLengthOutside(At(data.rows[r1], c - 1))
                      /\ IssueCountAt(header, r1 - 1, "value_range") = 1
                      /\ IssueCountAt(header, r1 - 1, "invalid_format") = 1
                      /\ ~IsBlank(At(data.rows[r2], c - 1))
                      /\ ~PhoneLengthOutside(At(data.rows[r2], c - 1))
                      /\ IssueCountAt(header, r2 - 1, "value_range") = 0

\* the steps as analyzeDataAndCreateSteps builds them: none applied, no row selected
AsBuilt(steps) ==
    \A i \in 1..Len(steps) : ~steps[i].applied /\ steps[i].selectedRows = {}

(* C23: the cleaning steps are built anew, none applied and no row selected,   *)
(* whenever the dataset given to DataCleaning changes, and when                *)
(* applyAllSelectedSteps has delivered its result the steps it used are not    *)
(* kept with their applied flags and selections.                               *)
C23_StepsRegeneratedAndDiscarded ==
    [][/\ data' # data =>
              cleaningSteps' = analyzeDataAndCreateSteps(data') /\ AsBuilt(cleaningSteps')
       /\ (isProcessing /\ ~isProcessing') => AsBuilt(cleaningSteps')]_vars

(* C24: for a dataset with unique header names the issue counts the dimension  *)
(* scores are computed from are the numbers of issues in the issue list: the   *)
(* sum of report.missingValues is the number of 'missing' issues,              *)
(* report.duplicateRows the number of 'duplicate' issues, and the sums of      *)
(* formatIssues, rangeIssues, inconsistencyIssues and unusualPatterns are the  *)
(* numbers of issues of their types.                                           *)
C24_CountsMatchIssueList ==
    (ReportDone /\ HeadersUnique(data)) =>
        /\ SumValues(report.missingValues) = CountType(detailedIssues, "missing")
        /\ report.duplicateRows = CountType(detailedIssues, "duplicate")
        /\ SumValues(report.formatIssues) = CountType(detailedIssues, "invalid_format")
        /\ SumValues(report.rangeIssues) = CountType(detailedIssues, "value_range")
        /\ SumValues(report.inconsistencyIssues) = CountType(detailedIssues, "inconsistent")
        /\ SumValues(report.unusualPatterns) = CountType(detailedIssues, "unusual_pattern")

\* the report of a dataset with two differently named columns, missing cells
\* and a repeated row
C24_TwoColumnsWithIssues ==
    /\ ReportDone
    /\ HeadersUnique(data)
    /\ Len(data.headers) = 2
    /\ CountType(detailedIssues, "missing") > 1
    /\ CountType(detailedIssues, "duplicate") > 0

\* the selections of the steps fit their kinds: rows of the step's own
\* affectedRows for a fill_missing step, no selectedRows for the other steps
SelectionsWellFormed ==
    \A i \in 1..Len(cleaningSteps) :
        IF cleaningSteps[i].type = "fill_missing"
        THEN /\ cleaningSteps[i].hasSelectedRows
             /\ cleaningSteps[i].selectedRows \subseteq Range(cleaningSteps[i].affectedRows)
        ELSE /\ ~cleaningSteps[i].hasSelectedRows
             /\ cleaningSteps[i].selectedRows = {}

(* C25: in every state reachable through toggleStep, toggleRowSelection,       *)
(* selectAllRows, selectNoneRows, updateStepValue and resetAllSteps each       *)
(* fill_missing step's selectedRows is a subset of its affectedRows and the    *)
(* steps of other types have no selectedRows; after resetAllSteps every step   *)
(* has applied = false and an empty selectedRows.                              *)
C25_SelectionsWithinAffectedRows ==
    /\ []SelectionsWellFormed
    /\ [][resetAllSteps => AsBuilt(cleaningSteps')]_vars

\* the state after a reset that followed an Apply: the preview shows the
\* uploaded dataset again, and the fill step that was run is as it was built
C25_ResetAfterApply ==
    /\ RunDone
    /\ previewData = data
    /\ AsBuilt(cleaningSteps)
    /\ \E i \in 1..Len(runSteps) :
          /\ runSteps[i].type = "fill_missing"
          /\ runSteps[i].applied
          /\ runSteps[i].selectedRows # {}

(* C26: every Apply starts from the uploaded dataset, never from the result of *)
(* an earlier Apply: the uploaded dataset is never replaced, the step settings *)
(* of a run are those of the moment Apply was clicked and stay so while the    *)
(* run is pending, and the dataset delivered is the one the transformations    *)
(* give for the uploaded dataset and those settings, so that equal settings    *)
(* give equal datasets.                                                        *)
C26_ResultFromUploadAndCapturedSteps ==
    [][/\ data' = data
       /\ (~isProcessing /\ isProcessing') => runSteps' = cleaningSteps
       /\ isProcessing => runSteps' = runSteps
       /\ (isProcessing /\ ~isProcessing') =>
              cleanedData' = Delivered(CleanRun(data, runSteps))]_vars

\* a second Apply is pending after a first one has delivered a changed dataset,
\* and the steps were changed after the click so that they would give another result
C26_StepsChangedWhilePending ==
    /\ isProcessing
    /\ cleanedData # NoData
    /\ cleanedData.rows # data.rows
    /\ previewData = cleanedData
    /\ cleaningSteps # runSteps
    /\ CleanRun(data, cleaningSteps).rows # CleanRun(data, runSteps).rows

\* the cleaned dataset keeps the headers, has no more rows than the input, and
\* its rows are input rows in their input order
HeadersAndOrderKept ==
    /\ cleanedData.headers = data.headers
    /\ Len(cleanedData.rows) <= Len(data.rows)
    /\ Len(cleanedOrigin) = Len(cleanedData.rows)
    /\ \A k \in 1..Len(cleanedOrigin) : cleanedOrigin[k] \in 0..(Len(data.rows) - 1)
    /\ \A j, k \in 1..Len(cleanedOrigin) : j < k => cleanedOrigin[j] < cleanedOrigin[k]

C28_AtMostOneRequestInFlight ==
    aiInsights # NoInsights =>
        /\ Len(network.pending) <= 1
        /\ aiInsights.isGenerating <=> Len(network.pending) = 1

\* the data the shown tab works on exists
ActiveTabHasData ==
    /\ activeTab \in {"preview", "analysis", "cleaning"} => data # NoData
    /\ activeTab = "insights" => report # NoReport
    /\ activeTab = "export" => cleanedData # NoData

\* C29: in every reachable state of App the active tab is one whose data
\* exists: preview, analysis or cleaning only with an uploaded dataset, insights
\* only with a quality report, export only with a cleaned dataset; and the tab
\* changes only to a tab that was enabled before the step, or to preview by an
\* upload, so a click on a disabled tab leaves activeTab unchanged
C29_ActiveTabHasItsData ==
    /\ []ActiveTabHasData
    /\ [][activeTab' # activeTab =>
             \/ ~Disabled(activeTab')
             \/ activeTab' = "preview" /\ data' # data]_vars

\* the export tab is shown while the insights tab is still disabled
C29_ExportShownInsightsDisabled ==
    /\ activeTab = "export"
    /\ cleanedData # NoData
    /\ report = NoReport

\* the last run applied one step only, a remove_outliers step
OnlyOutlierRemoval ==
    /\ RunDone
    /\ Len(AppliedSteps(runSteps)) = 1
    /\ AppliedSteps(runSteps)[1].type = "remove_outliers"

\* C30: when a remove_outliers step is the only applied step of a run, the rows
\* the run drops are exactly the rows of the step's affectedRows, the rows kept
\* are unchanged and in their order, and the number of rows dropped is the
\* step's issues count
C30_DroppedRowsAreAffectedRows ==
    OnlyOutlierRemoval =>
        LET step == AppliedSteps(runSteps)[1]
            dropped == {i \in 0..(Len(data.rows) - 1) : i \notin Range(cleanedOrigin)}
        IN  /\ dropped = Range(step.affectedRows)
            /\ Len(data.rows) - Len(cleanedData.rows) = step.issues
            /\ \A k \in 1..Len(cleanedData.rows) :
                  cleanedData.rows[k] = data.rows[cleanedOrigin[k] + 1]
            /\ \A k \in 1..(Len(cleanedOrigin) - 1) : cleanedOrigin[k] < cleanedOrigin[k + 1]

\* an outlier removal alone that drops a row and keeps a row whose cell in the
\* column is not a number
C30_OutlierDroppedBlankKept ==
    /\ OnlyOutlierRemoval
    /\ Len(cleanedData.rows) < Len(data.rows)
    /\ \E k \in 1..Len(cleanedData.rows) :
          ~IsNumber(At(cleanedData.rows[k],
                       IndexOf(data.headers, AppliedSteps(runSteps)[1].column)))

=============================================================================
